---- MODULE Spec2Model ----
(***************************************************************************)
(* Task-context management of the DART tasking runtime                     *)
(* (dart_tasking_context.c): per-thread store of context blocks, the entry *)
(* trampoline, and the create / release / invoke / swap / cleanup calls of *)
(* one worker thread.                                                      *)
(*                                                                         *)
(* A context block (context_list_t) is identified by its address, a number *)
(* in 1..n.  A flow is a call stack: the thread's own stack (MainFlow) or  *)
(* the stack of a block.  ucontext_t values are abstracted to what         *)
(* setcontext does with them: start the trampoline on the block's stack    *)
(* ("entry"), continue a flow after the swapcontext that saved it          *)
(* ("saved"), or nothing defined ("stale": the frame it was saved from is  *)
(* no longer on its stack, because the flow has run on since or its stack  *)
(* was given away; "none": never written).                                 *)
(***************************************************************************)
EXTENDS Integers, Sequences, FiniteSets, TLC

\* ------------------------------------------------------------------ bounds
\* number of block addresses the allocator can hand out (Spec)
MaxBlocks == 2
\* number of block addresses in the store-capacity scenario (SpecPool)
PoolBlocks == 12
\* swapcontext failures in one run
MaxSwapFail == 1
\* mprotect failures in one run
MaxProtFail == 1
\* number of block addresses in the build scenario (SpecBuilds)
BuildBlocks == 1

\* --------------------------------------------------------------- constants
NULL == 0
\* #define PER_THREAD_CTX_STORE 10
PER_THREAD_CTX_STORE == 10
\* the context_t the scheduler keeps for the thread's own stack; it is not
\* part of any context_list_t and never carries an entry function
MainCtx == 0 - 1
MainFlow == MainCtx

DART_OK == "DART_OK"
DART_ERR_OTHER == "DART_ERR_OTHER"

\* the <<fn, arg>> pairs a caller passes to create: two entry functions,
\* each with its own argument
Entries == {<<1, 1>>, <<2, 2>>}

VARIABLES
  mem,      \* block -> "none" | "alloc" | "freed"   (posix_memalign / free)
  next,     \* context_list_s.next
  length,   \* context_list_s.length
  fn,       \* context_t.fn   (blocks and MainCtx)
  arg,      \* context_t.arg
  uc,       \* context_t.ctx  (ucontext_t): [kind, flow]
  ctxlist,  \* thread->ctxlist
  cur,      \* the flow that is executing
  aborted,  \* the process was aborted by an assertion
  ub,       \* the process executed undefined behaviour
  done,     \* the thread has shut down (cleanup was called)
  nfail,    \* number of swapcontext failures so far
  owners,   \* block -> number of handles created and not yet released
  given,    \* block -> <<fn, arg>> passed to the latest create
  ncalls,   \* block -> entries of the trampoline since the latest create
  last,     \* the call that made the latest step
  build,    \* the compile-time switches: [debug, mmap, mprotect]
  canary,   \* block -> [lo, hi]: the two stack guards of DART_DEBUG
  guard,    \* block -> protection of the page at ub_guard
  trace,    \* system calls and warnings of the latest call, in order
  nprot,    \* number of mprotect failures so far
  page_size,        \* static size_t page_size
  task_stack_size,  \* static size_t task_stack_size
  szin,     \* what the system reports: [page, env, header, req]
  szout,    \* [inited, adjusted, size]: what was computed from it
  tid,      \* the worker thread that is executing
  tl,       \* thread -> thread structure of each thread that is not running
  fut,      \* dash::Future objects: [live, get, test, destroy, value, ready]
  fcb,      \* the operations behind the callbacks, and how often each
            \* callback was called
  flast,    \* the last call on a future and how it ended
  allocated,  \* DynamicAllocator::_allocated
  dart,     \* local memory, the global memory space and the runtime
  dlast,    \* the last call on the allocator and how it ended
  view,     \* a dash::ViewSpec: [values, size, rank, extents, offsets]
  vlast     \* the last call on the view and how it ended

\* the variables of the context management proper
ctxvars == <<mem, next, length, fn, arg, uc, ctxlist, cur, aborted, ub, done,
             nfail, owners, given, ncalls, last>>
\* the variables the compile-time switches add
buildvars == <<build, canary, guard, trace, nprot>>

\* the sizes context_init sets, and what they are computed from
sizevars == <<page_size, task_stack_size, szin, szout>>
\* the worker threads
threadvars == <<tid, tl>>
\* dash::Future
futvars == <<fut, fcb, flast>>
\* dash::allocator::DynamicAllocator
dynvars == <<allocated, dart, dlast>>
\* dash::ViewSpec
viewvars == <<view, vlast>>
objvars == <<futvars, dynvars, viewvars>>
restvars == <<sizevars, threadvars, objvars>>

vars == <<ctxvars, buildvars, sizevars, threadvars, futvars, dynvars,
          viewvars>>

Blocks == DOMAIN mem
Ctxs == Blocks \cup {MainCtx}
Flows == Blocks \cup {MainFlow}

UcNone == [kind |-> "none", flow |-> NULL]
\* a create that leaves the saved state of the block as it finds it
UcEntryNotMade(c) == [kind |-> "stale", flow |-> NULL]
\* makecontext(&ctx, &dart__tasking__context_entry, 0, 0) on the stack of c
UcEntry(c) == [kind |-> "entry", flow |-> c]
\* a switch that saves nothing of the flow f (setcontext for swapcontext)
UcNotSaved(f) == [kind |-> "stale", flow |-> NULL]
\* swapcontext saved the flow f, which is suspended there
UcSaved(f) == [kind |-> "saved", flow |-> f]
UcStale == [kind |-> "stale", flow |-> NULL]
\* the flow f is gone (its stack is released): what was saved of it is stale
Kill(u, f) == [c \in DOMAIN u |-> IF u[c] = UcSaved(f) THEN UcStale ELSE u[c]]

\* op(old, ctx): flag is the branch taken (create: the block came from the
\* store; release: the block was stored; invoke / swap: control was
\* transferred), ret the value a swap call returned to the flow that
\* executes now, or ENOMEM when the allocator failed, blk / cfn / carg what
\* the trampoline popped and called
MkLast(op, c, o, flag, r, p, f, a) ==
  [op |-> op, ctx |-> c, old |-> o, flag |-> flag, ret |-> r, blk |-> p,
   cfn |-> f, carg |-> a]

InitOn(n) ==
  /\ mem = [b \in 1..n |-> "none"]
  /\ next = [b \in 1..n |-> NULL]
  /\ length = [b \in 1..n |-> 0]
  /\ fn = [c \in (1..n) \cup {MainCtx} |-> NULL]
  /\ arg = [c \in (1..n) \cup {MainCtx} |-> NULL]
  /\ uc = [c \in (1..n) \cup {MainCtx} |-> UcNone]
  /\ ctxlist = NULL
  /\ cur = MainFlow
  /\ aborted = FALSE
  /\ ub = FALSE
  /\ done = FALSE
  /\ nfail = 0
  /\ owners = [b \in 1..n |-> 0]
  /\ given = [b \in 1..n |-> <<NULL, NULL>>]
  /\ ncalls = [b \in 1..n |-> 0]
  /\ last = MkLast("init", NULL, NULL, FALSE, "none", NULL, NULL, NULL)

\* USE_MMAP and USE_MPROTECT are commented out, DART_DEBUG is not defined
DefaultBuild == [debug |-> FALSE, mmap |-> FALSE, mprotect |-> FALSE]
DEADBEEF == "DEADBEEF"

InitBuild(n, b) ==
  /\ build = b
  /\ canary = [x \in 1..n |-> [lo |-> "unset", hi |-> "unset"]]
  /\ guard = [x \in 1..n |-> "none"]
  /\ trace = <<>>
  /\ nprot = 0

\* Use 16K stack size per task
DEFAULT_TASK_STACK_SIZE == 16384
\* sizeof(context_list_t) on x86-64 / glibc without, with one and with both
\* of ub_guard and size, and on aarch64 / glibc, whose ucontext_t holds
\* 4096 reserved bytes
HeaderSizes == {976, 984, 992, 4608}
\* the sizes after context_init on a system with 4K pages and no
\* DART_TASK_STACKSIZE in the environment
InitSizesDone ==
  /\ page_size = 4096
  /\ task_stack_size = DEFAULT_TASK_STACK_SIZE
  /\ szin = [page |-> 4096, env |-> 0 - 1, header |-> 976, req |-> 1]
  /\ szout = [inited |-> TRUE, adjusted |-> 0, size |-> 0]

\* one worker thread
InitOneThread == tid = 1 /\ tl = <<>>

\* no future and no allocator has been constructed
InitNoObjects ==
  /\ fut = <<>> /\ fcb = <<>> /\ flast = <<>>
  /\ allocated = <<>> /\ dart = <<>> /\ dlast = <<>>
  /\ view = <<>> /\ vlast = <<>>

Init ==
  /\ InitOn(MaxBlocks) /\ InitBuild(MaxBlocks, DefaultBuild)
  /\ InitSizesDone /\ InitOneThread /\ InitNoObjects

\* the thread is executing and may call the API
Running == ~aborted /\ ~ub /\ ~done

\* ------------------------------------------------------------ the store
\* the blocks reachable from h through next, at most k of them
RECURSIVE Chain(_, _, _)
Chain(h, nx, k) ==
  IF h = NULL \/ k = 0 THEN <<>> ELSE <<h>> \o Chain(nx[h], nx, k - 1)

\* thread->ctxlist as a sequence, top first (cut after one lap of a cycle)
Pool == Chain(ctxlist, next, Cardinality(Blocks) + 1)
PoolSet == {Pool[i] : i \in 1..Len(Pool)}
PoolAcyclic == Len(Pool) <= Cardinality(Blocks) /\ Cardinality(PoolSet) = Len(Pool)


Freed(b) == b # NULL /\ b \in Blocks /\ mem[b] = "freed"

\* DART_STACK_PUSH(head, elem): elem->next = head; head = elem
StackPushNext(h, nx, e) == [nx EXCEPT ![e] = h]
\* DART_STACK_POP(head, elem): elem = head; head = elem->next; elem->next = NULL
StackPopHead(h, nx) == IF h = NULL THEN NULL ELSE nx[h]
StackPopNext(h, nx) == IF h = NULL THEN nx ELSE [nx EXCEPT ![h] = NULL]

\* DART_ASSERT*(cond): a failed assertion aborts the process
AssertAborts(cond) == ~cond

\* ----------------------------------------------------------- allocation
\* an allocator outcome that is never looked at
AllocNeverFails(allocok) == FALSE
\* DART_ASSERT_MSG(ctxlist != MAP_FAILED, ..) /
\* DART_ASSERT_RETURNS(posix_memalign(..), 0): the allocator's outcome is
\* asserted before the block is touched
AllocFails(allocok) == AssertAborts(allocok)
\* what the allocator reported
AllocRet(allocok) == IF allocok THEN "none" ELSE "ENOMEM"
\* the address posix_memalign hands out: one never handed out before
NewBlock == CHOOSE b \in Blocks : mem[b] = "none" /\ \A b2 \in Blocks : b2 < b => mem[b2] # "none"
CanAllocate == \E b \in Blocks : mem[b] = "none"

\* release: "don't keep too many ctx around"
StoreFull == ctxlist # NULL /\ length[ctxlist] > PER_THREAD_CTX_STORE

\* a release that counts up the counter the block came with
ReleaseLengthOwn(c) == length[c] + 1
\* ctxlist->length = (thread->ctxlist != NULL) ? thread->ctxlist->length : 0;
\* ctxlist->length++
ReleaseLength(c) == (IF ctxlist # NULL THEN length[ctxlist] ELSE 0) + 1

\* the caller may give control to c: c still carries its entry function, or
\* c holds the continuation of a suspended flow
Suspended(c) == uc[c].kind = "saved"
Live(c) == c = MainCtx \/ (c \in Blocks /\ owners[c] > 0)
Enterable(c) == Live(c) /\ (fn[c] # NULL \/ Suspended(c))

\* ---------------------------------------------------------------- create
\* dart__tasking__context_create, a block taken from the thread's store
CreateReuse(f, a) ==
  /\ Running
  /\ ctxlist # NULL
  /\ IF Freed(ctxlist)
     THEN /\ ub' = TRUE
          /\ last' = MkLast("create", ctxlist, NULL, TRUE, "none", NULL, NULL, NULL)
          /\ UNCHANGED <<mem, next, length, fn, arg, uc, ctxlist, cur, aborted,
                         done, nfail, owners, given, ncalls>>
     ELSE LET res == ctxlist IN
          /\ length' = [length EXCEPT ![res] = 0]
          /\ ctxlist' = next[res]
          /\ uc' = [Kill(uc, res) EXCEPT ![res] = UcEntry(res)]
          /\ fn' = [fn EXCEPT ![res] = f]
          /\ arg' = [arg EXCEPT ![res] = a]
          /\ owners' = [owners EXCEPT ![res] = @ + 1]
          /\ given' = [given EXCEPT ![res] = <<f, a>>]
          /\ ncalls' = [ncalls EXCEPT ![res] = 0]
          /\ last' = MkLast("create", res, NULL, TRUE, "none", NULL, NULL, NULL)
          \* a block that a live context still owns: two contexts now run on
          \* one stack
          /\ ub' = (owners[res] > 0)
          /\ UNCHANGED <<mem, next, cur, aborted, done, nfail>>

\* dart__tasking__context_create with an empty store: context_allocate;
\* allocok is the outcome of posix_memalign / mmap
CreateAlloc(f, a, allocok) ==
  /\ Running
  /\ ctxlist = NULL
  /\ CanAllocate
  /\ IF AllocFails(allocok)
     THEN /\ aborted' = TRUE
          /\ last' = MkLast("create", NULL, NULL, FALSE, AllocRet(allocok),
                            NULL, NULL, NULL)
          /\ UNCHANGED <<mem, next, length, fn, arg, uc, ctxlist, cur, ub,
                         done, nfail, owners, given, ncalls>>
     ELSE LET res == NewBlock IN
          /\ mem' = [mem EXCEPT ![res] = "alloc"]
          /\ next' = [next EXCEPT ![res] = NULL]
          /\ length' = [length EXCEPT ![res] = 0]
          /\ uc' = [uc EXCEPT ![res] = UcEntry(res)]
          /\ fn' = [fn EXCEPT ![res] = f]
          /\ arg' = [arg EXCEPT ![res] = a]
          /\ owners' = [owners EXCEPT ![res] = 1]
          /\ given' = [given EXCEPT ![res] = <<f, a>>]
          /\ ncalls' = [ncalls EXCEPT ![res] = 0]
          /\ last' = MkLast("create", res, NULL, FALSE, AllocRet(allocok),
                            NULL, NULL, NULL)
          /\ UNCHANGED <<ctxlist, cur, aborted, ub, done, nfail>>

Create(f, a, allocok) ==
  \/ allocok /\ CreateReuse(f, a)
  \/ CreateAlloc(f, a, allocok)

\* --------------------------------------------------------------- release
\* dart__tasking__context_release(ctx): ctx is a handle the caller holds and
\* is not executing on
Release(c) ==
  /\ Running
  /\ c \in Blocks /\ owners[c] > 0 /\ c # cur
  /\ IF Freed(c) \/ Freed(ctxlist)
     THEN /\ ub' = TRUE
          /\ last' = MkLast("release", c, NULL, FALSE, "none", NULL, NULL, NULL)
          /\ UNCHANGED <<mem, next, length, ctxlist, uc, owners, given, ncalls>>
     ELSE /\ owners' = [owners EXCEPT ![c] = @ - 1]
          /\ uc' = [Kill(uc, c) EXCEPT ![c] = IF @.kind = "saved" THEN UcStale ELSE @]
          /\ given' = [given EXCEPT ![c] = <<NULL, NULL>>]
          /\ UNCHANGED <<ub, ncalls>>
          /\ IF StoreFull
             THEN \* dart__tasking__context_free
                  /\ mem' = [mem EXCEPT ![c] = "freed"]
                  /\ last' = MkLast("release", c, NULL, FALSE, "none", NULL, NULL, NULL)
                  /\ UNCHANGED <<next, length, ctxlist>>
             ELSE /\ length' = [length EXCEPT ![c] = ReleaseLength(c)]
                  /\ next' = StackPushNext(ctxlist, next, c)
                  /\ ctxlist' = c
                  /\ last' = MkLast("release", c, NULL, TRUE, "none", NULL, NULL, NULL)
                  /\ UNCHANGED mem
  /\ UNCHANGED <<fn, arg, cur, aborted, done, nfail>>

\* ------------------------------------------------- transfer of control
\* a trampoline that leaves the entry fields as they are
EntryKeeps(f1, p) == f1
\* ctxlist->ctx.fn = ctxlist->ctx.arg = NULL in the trampoline
EntryClears(f1, p) == [f1 EXCEPT ![p] = NULL]
\* a swap that ignores what swapcontext returned
SwapReturnsOk(ret) == DART_OK
\* the value dart__tasking__context_swap returns for swapcontext's ret
SwapReturns(ret) == IF ret = 0 - 1 THEN DART_ERR_OTHER ELSE DART_OK

\* setcontext / swapcontext into the ucontext of c, in the state the caller
\* has built: hd1, nx1 the store after the caller's push, fn1, arg1 the entry
\* fields, uc1 the saved states.  A ucontext made by makecontext starts
\* dart__tasking__context_entry on the stack of c; one saved by swapcontext
\* continues the saved flow, whose swap call returns DART_OK.
Transfer(c, hd1, nx1, fn1, arg1, uc1, gv1, op, o) ==
  IF uc1[c].kind = "entry"
  THEN \* dart__tasking__context_entry
       LET p == hd1 IN
       IF p = NULL
       THEN \* DART_ASSERT(ctxlist != NULL)
            /\ aborted' = AssertAborts(FALSE)
            /\ last' = MkLast(op, c, o, TRUE, "none", NULL, NULL, NULL)
            /\ given' = gv1
            /\ UNCHANGED <<ub, cur, ncalls>>
            /\ ctxlist' = hd1 /\ next' = nx1 /\ fn' = fn1 /\ arg' = arg1
            /\ uc' = uc1
       ELSE IF Freed(p) \/ fn1[p] = NULL
       THEN \* the popped block is gone, or it carries no function to call
            /\ ub' = TRUE
            /\ last' = MkLast(op, c, o, TRUE, "none", p, NULL, NULL)
            /\ given' = gv1
            /\ UNCHANGED <<aborted, cur, ncalls>>
            /\ ctxlist' = hd1 /\ next' = nx1 /\ fn' = fn1 /\ arg' = arg1
            /\ uc' = uc1
       ELSE /\ ctxlist' = StackPopHead(hd1, nx1)
            /\ next' = StackPopNext(hd1, nx1)
            /\ fn' = EntryClears(fn1, p)
            /\ arg' = EntryClears(arg1, p)
            /\ uc' = uc1
            /\ cur' = uc1[c].flow
            /\ ncalls' = [ncalls EXCEPT ![p] = @ + 1]
            /\ given' = [gv1 EXCEPT ![p] = <<NULL, NULL>>]
            /\ last' = MkLast(op, c, o, TRUE, "none", p, fn1[p], arg1[p])
            /\ UNCHANGED <<aborted, ub>>
  ELSE /\ cur' = uc1[c].flow
       /\ uc' = [uc1 EXCEPT ![c] = UcStale]
       /\ ctxlist' = hd1 /\ next' = nx1 /\ fn' = fn1 /\ arg' = arg1
       /\ last' = MkLast(op, c, o, TRUE, SwapReturns(0), NULL, NULL, NULL)
       /\ given' = gv1
       /\ UNCHANGED <<aborted, ub, ncalls>>

\* ---------------------------------------------------------------- invoke
\* an invoke that never prepends the context to the thread's ctxlist
InvokeFirstNever(c) == FALSE
\* if (ctx->fn): "first invocation --> prepend to thread's ctxlist"
InvokeFirst(c) == fn[c] # NULL

\* an invoke that switches with swapcontext, saving the caller in the
\* context of its own stack
InvokeSaves(c) ==
  /\ Running
  /\ c \in Ctxs /\ Enterable(c) /\ c # cur /\ ~Freed(c)
  /\ LET first == fn[c] # NULL
         nx1 == IF first THEN StackPushNext(ctxlist, next, c) ELSE next
         hd1 == IF first THEN c ELSE ctxlist
     IN Transfer(c, hd1, nx1, fn, arg, [uc EXCEPT ![cur] = UcSaved(cur)],
                 given, "invoke", NULL)
  /\ UNCHANGED <<mem, length, done, owners, nfail>>

\* dart__tasking__context_invoke(ctx)
Invoke(c) ==
  /\ Running
  /\ c \in Ctxs /\ Enterable(c)
  /\ IF Freed(c)
     THEN /\ ub' = TRUE
          /\ last' = MkLast("invoke", c, NULL, FALSE, "none", NULL, NULL, NULL)
          /\ UNCHANGED <<next, fn, arg, uc, ctxlist, cur, aborted, ncalls, given>>
     ELSE LET first == InvokeFirst(c)
              nx1 == IF first THEN StackPushNext(ctxlist, next, c) ELSE next
              hd1 == IF first THEN c ELSE ctxlist
          IN Transfer(c, hd1, nx1, fn, arg, uc, given, "invoke", NULL)
  /\ UNCHANGED <<mem, length, done, owners, nfail>>

\* ------------------------------------------------------------------ swap
\* the context a flow saves itself into: the one of its own stack, or, for
\* a task that runs on the thread's own stack, one that was created for it
\* and has not run; never one that holds a suspended flow
OwnCtx(f) == f
MaySaveInto(o) ==
  /\ o \in Ctxs /\ Live(o)
  /\ o = OwnCtx(cur) \/ (cur = MainFlow /\ fn[o] # NULL)
  /\ ~Suspended(o)

\* if (new_ctx->fn): "first invocation --> prepend to thread's ctxlist"
SwapFirst(n) == fn[n] # NULL
\* a swap that leaves the entry fields of old_ctx alone
SwapKeepsOld(o) == FALSE
\* if (old_ctx->fn): "make sure we do not call the entry function upon next
\* swap"
SwapClearsOld(o) == fn[o] # NULL

\* dart__tasking__context_swap(old_ctx, new_ctx); fails is the outcome of
\* swapcontext.  A failing swapcontext has already written the caller's
\* registers into old_ctx (it saves them before the signal-mask call that
\* can fail); the caller runs on, so what it wrote is stale at once.
Swap(o, n, fails) ==
  /\ Running
  /\ n \in Ctxs /\ Enterable(n)
  /\ MaySaveInto(o) /\ o # n
  /\ (fails => nfail < MaxSwapFail)
  /\ IF Freed(n) \/ Freed(o)
     THEN \* the handle is read before swapcontext is reached
          /\ ~fails
          /\ ub' = TRUE
          /\ last' = MkLast("swap", n, o, FALSE, "none", NULL, NULL, NULL)
          /\ UNCHANGED <<next, fn, arg, uc, ctxlist, cur, aborted, ncalls,
                         given, nfail>>
     ELSE LET first == SwapFirst(n)
              nx1 == IF first THEN StackPushNext(ctxlist, next, n) ELSE next
              hd1 == IF first THEN n ELSE ctxlist
              fn1 == IF SwapClearsOld(o) THEN [fn EXCEPT ![o] = NULL] ELSE fn
              arg1 == IF SwapClearsOld(o) THEN [arg EXCEPT ![o] = NULL] ELSE arg
              gv1 == IF o \in Blocks THEN [given EXCEPT ![o] = <<NULL, NULL>>]
                     ELSE given
          IN IF fails
             THEN /\ nfail' = nfail + 1
                  /\ ctxlist' = hd1 /\ next' = nx1 /\ fn' = fn1 /\ arg' = arg1
                  /\ uc' = [uc EXCEPT ![o] = UcStale]
                  /\ last' = MkLast("swap", n, o, FALSE, SwapReturns(0 - 1),
                                    NULL, NULL, NULL)
                  /\ given' = gv1
                  /\ UNCHANGED <<cur, aborted, ub, ncalls>>
             ELSE /\ UNCHANGED nfail
                  /\ Transfer(n, hd1, nx1, fn1, arg1,
                              [uc EXCEPT ![o] = UcSaved(cur)], gv1, "swap", o)
  /\ UNCHANGED <<mem, length, done, owners>>

\* ------------------------------------------------------- the task returns
\* a trampoline without the final assertion: it returns, and with uc_link
\* NULL the thread exits
FnReturnFallsOff ==
  /\ Running
  /\ cur \in Blocks
  /\ done' = TRUE
  /\ last' = MkLast("return", cur, NULL, FALSE, "none", NULL, NULL, NULL)
  /\ UNCHANGED <<mem, next, length, fn, arg, uc, ctxlist, cur, ub, aborted,
                 nfail, owners, given, ncalls>>

\* the entry function returns into dart__tasking__context_entry:
\* DART_ASSERT_MSG(NULL, "task context invocation function returned!")
FnReturn ==
  /\ Running
  /\ cur \in Blocks
  /\ aborted' = AssertAborts(FALSE)
  /\ last' = MkLast("return", cur, NULL, FALSE, "none", NULL, NULL, NULL)
  /\ UNCHANGED <<mem, next, length, fn, arg, uc, ctxlist, cur, ub, done,
                 nfail, owners, given, ncalls>>

\* --------------------------------------------------------------- cleanup
\* dart__tasking__context_cleanup, called by the thread itself at shutdown:
\* pop and free every block of the store.  A block met twice, or one already freed, is freed
\* again or read after its free.
Cleanup ==
  /\ Running
  /\ cur = MainFlow
  /\ IF PoolAcyclic /\ \A b \in PoolSet : ~Freed(b)
     THEN /\ mem' = [b \in Blocks |-> IF b \in PoolSet THEN "freed" ELSE mem[b]]
          /\ next' = [b \in Blocks |-> IF b \in PoolSet THEN NULL ELSE next[b]]
          /\ ctxlist' = NULL
          /\ done' = TRUE
          /\ UNCHANGED ub
     ELSE /\ ub' = TRUE
          /\ UNCHANGED <<mem, next, ctxlist, done>>
  /\ last' = MkLast("cleanup", NULL, NULL, FALSE, "none", NULL, NULL, NULL)
  /\ UNCHANGED <<length, fn, arg, uc, cur, aborted, nfail, owners, given, ncalls>>

\* ------------------------------------------------ compile-time switches
\* What USE_MMAP, USE_MPROTECT and DART_DEBUG add to the calls above.
EvAlloc(ok) ==
  [call |-> IF build.mmap THEN "mmap" ELSE "posix_memalign", blk |-> NULL,
   ok |-> ok]
EvProtect(b, prot, ok) == [call |-> "mprotect", blk |-> b, prot |-> prot, ok |-> ok]
EvWarn(what, b) == [call |-> "DART_LOG_WARN", blk |-> b, what |-> what]
EvFree(b) == [call |-> IF build.mmap THEN "munmap" ELSE "free", blk |-> b]

\* mprotect(.., prot) in a USE_MPROTECT build: the call, and the warning
\* when it failed
ProtectTrace(b, prot, mpok) ==
  IF build.mprotect
  THEN <<EvProtect(b, prot, mpok)>>
         \o (IF mpok THEN <<>> ELSE <<EvWarn("mprotect", b)>>)
  ELSE <<>>
ProtectGuard(g, b, prot, mpok) ==
  IF build.mprotect /\ mpok THEN [g EXCEPT ![b] = prot] ELSE g

\* a free that releases the region before it restores the guard page
ContextFreeReleasesFirst(b, mpok) ==
  <<EvFree(b)>> \o ProtectTrace(b, "RWX", mpok)
\* a free that keeps the region when the guard page cannot be restored
ContextFreeGivesUp(b, mpok) ==
  ProtectTrace(b, "RWX", mpok) \o (IF mpok THEN <<EvFree(b)>> ELSE <<>>)
\* dart__tasking__context_free(b): restore the guard page, then release
ContextFree(b, mpok) == ProtectTrace(b, "RWX", mpok) \o <<EvFree(b)>>

\* the stack guards are "unchanged" for release: a test with && where the
\* two are to be warned about separately
CanaryIntact(c) == ~(c.lo # DEADBEEF /\ c.hi # DEADBEEF)

\* ---------------------------------------------------------------------
\* Sizes.  size_t is modelled SizeBits wide; every page size and stack
\* size below fits, and the arithmetic wraps as unsigned arithmetic does.
\* ---------------------------------------------------------------------
SizeBits == 20
\* the largest number of whole pages of a drawn stack size
MaxPages == 3

SizeMod == 2 ^ SizeBits
\* conversion to size_t
ToSize(x) == x % SizeMod
SIZE_MAX == SizeMod - 1

\* x & y on the n low bits
RECURSIVE BitAnd(_, _, _)
BitAnd(x, y, n) ==
  IF n = 0 THEN 0
  ELSE 2 * BitAnd(x \div 2, y \div 2, n - 1) + ((x % 2) * (y % 2))

\* ~x
BitNot(x) == SIZE_MAX - x

\* an adjustment that leaves the size as it is
AdjustSizeKeeps(size, page) == size

\* dart__tasking__context_adjust_size: mask = page_size - 1;
\* (size + mask) & ~mask
AdjustSize(size, page) ==
  LET mask == ToSize(page - 1)
  IN BitAnd(ToSize(size + mask), BitNot(mask), SizeBits)

\* the size dart__tasking__context_allocate asks for
AllocSize ==
  IF build.mprotect
  THEN ToSize(AdjustSize(szin.header, page_size)
              + AdjustSize(task_stack_size, page_size) + page_size)
  ELSE ToSize(AdjustSize(szin.header, page_size)
              + AdjustSize(task_stack_size, page_size))

\* the addresses context_allocate stores in a block, as offsets from the
\* start of the region (which posix_memalign / mmap align to a page)
\* ctxlist->stack = ((char*)ctxlist) + page_size
StackOffset == page_size
\* ctxlist->ub_guard = ctxlist->stack + task_stack_size
UbGuardOffset == ToSize(StackOffset + task_stack_size)
\* mprotect(ctxlist->ub_guard, page_size, ..) in context_allocate and in
\* context_free: [first, end) of the range
GuardRange == <<UbGuardOffset, UbGuardOffset + page_size>>
\* uc_stack.ss_sp = ctxlist->stack, uc_stack.ss_size = task_stack_size:
\* [first, end) of the stack the context runs on
StackRange == <<StackOffset, StackOffset + task_stack_size>>

\* dart__tasking__context_init; sysconf reports szin.page, and
\* dart__base__env__task_stacksize returns szin.env (-1: not set or not a
\* size), which is converted to size_t as it is stored.  The test is the
\* source's: -1 is converted to size_t for the comparison.
ContextInit ==
  /\ ~szout.inited
  /\ LET env_stack_size == ToSize(szin.env)
         taken == IF env_stack_size > ToSize(0 - 1)
                  THEN env_stack_size ELSE task_stack_size
     IN /\ page_size' = ToSize(szin.page)
        /\ task_stack_size' = IF taken < page_size' THEN page_size' ELSE taken
  /\ szout' = [szout EXCEPT !.inited = TRUE]
  /\ UNCHANGED <<ctxvars, buildvars, szin, threadvars, objvars>>

\* dart__tasking__context_adjust_size applied to szin.req
ContextAdjustSize ==
  /\ szout.inited
  /\ szout.adjusted = 0
  /\ szout' = [szout EXCEPT !.adjusted = AdjustSize(szin.req, page_size)]
  /\ UNCHANGED <<ctxvars, buildvars, page_size, task_stack_size, szin,
                 threadvars, objvars>>

\* what a create leaves of the sizes: the size of the region it asked for
SizesAfterCreate ==
  /\ szout' = IF ctxlist = NULL THEN [szout EXCEPT !.size = AllocSize]
              ELSE szout
  /\ UNCHANGED <<page_size, task_stack_size, szin>>

\* the mprotect outcome is an input only where mprotect is called
ProtInput(called, mpok) ==
  /\ called \/ mpok
  /\ ~mpok => nprot < MaxProtFail
  /\ nprot' = IF mpok THEN nprot ELSE nprot + 1

\* a create for which a guard page that cannot be installed is fatal
ContextCreateStrict(f, a, allocok, mpok) ==
  IF build.mprotect /\ ~mpok
  THEN /\ Running /\ ctxlist = NULL /\ CanAllocate /\ allocok
       /\ nprot < MaxProtFail
       /\ nprot' = nprot + 1
       /\ mem' = [mem EXCEPT ![NewBlock] = "alloc"]
       /\ aborted' = TRUE
       /\ trace' = <<EvAlloc(TRUE)>> \o ProtectTrace(NewBlock, "PROT_NONE", FALSE)
       /\ last' = MkLast("create", NULL, NULL, FALSE, "none", NULL, NULL, NULL)
       /\ UNCHANGED <<next, length, fn, arg, uc, ctxlist, cur, ub, done, nfail,
                      owners, given, ncalls, build, canary, guard, threadvars, objvars>>
       /\ SizesAfterCreate
  ELSE /\ Create(f, a, allocok)
       /\ nprot' = nprot
       /\ trace' = IF ctxlist # NULL THEN <<>>
                   ELSE <<EvAlloc(allocok)>>
                          \o (IF mem' # mem
                              THEN ProtectTrace(last'.ctx, "PROT_NONE", TRUE)
                              ELSE <<>>)
       /\ guard' = IF mem' # mem
                   THEN ProtectGuard(guard, last'.ctx, "PROT_NONE", TRUE)
                   ELSE guard
       /\ canary' = IF build.debug /\ ~aborted' /\ ~Freed(ctxlist)
                    THEN [canary EXCEPT ![last'.ctx] =
                            [lo |-> DEADBEEF, hi |-> DEADBEEF]]
                    ELSE canary
       /\ SizesAfterCreate
       /\ UNCHANGED <<build, threadvars, objvars>>

\* dart__tasking__context_create in the build at hand
ContextCreate(f, a, allocok, mpok) ==
  /\ Create(f, a, allocok)
  /\ LET fresh == mem' # mem
         res == last'.ctx
         wrote == ~aborted' /\ ~Freed(ctxlist)
     IN /\ ProtInput(fresh /\ build.mprotect, mpok)
        /\ trace' = IF ctxlist # NULL THEN <<>>
                    ELSE <<EvAlloc(allocok)>>
                           \o (IF fresh THEN ProtectTrace(res, "PROT_NONE", mpok)
                               ELSE <<>>)
        /\ guard' = IF fresh THEN ProtectGuard(guard, res, "PROT_NONE", mpok)
                    ELSE guard
        /\ canary' = IF build.debug /\ wrote
                     THEN [canary EXCEPT ![res] = [lo |-> DEADBEEF, hi |-> DEADBEEF]]
                     ELSE canary
  /\ SizesAfterCreate
  /\ UNCHANGED <<build, threadvars, objvars>>

\* a release that keeps no mapped region: with USE_MMAP it unmaps at once
ContextReleaseUnmaps(c, mpok) ==
  IF build.mmap
  THEN /\ Running /\ c \in Blocks /\ owners[c] > 0 /\ c # cur
       /\ ProtInput(build.mprotect, mpok)
       /\ mem' = [mem EXCEPT ![c] = "freed"]
       /\ owners' = [owners EXCEPT ![c] = @ - 1]
       /\ given' = [given EXCEPT ![c] = <<NULL, NULL>>]
       /\ uc' = [Kill(uc, c) EXCEPT ![c] = IF @.kind = "saved" THEN UcStale ELSE @]
       /\ last' = MkLast("release", c, NULL, FALSE, "none", NULL, NULL, NULL)
       /\ trace' = ContextFree(c, mpok)
       /\ guard' = ProtectGuard(guard, c, "RWX", mpok)
       /\ UNCHANGED <<next, length, fn, arg, ctxlist, cur, aborted, ub, done,
                      nfail, ncalls, restvars, build, canary>>
  ELSE /\ Release(c)
       /\ trace' = (IF build.debug /\ ~ub' /\ ~CanaryIntact(canary[c])
                    THEN <<EvWarn("overflow", c)>> ELSE <<>>)
                     \o (IF mem' # mem THEN ContextFree(c, mpok) ELSE <<>>)
       /\ ProtInput(mem' # mem /\ build.mprotect, mpok)
       /\ guard' = IF mem' # mem THEN ProtectGuard(guard, c, "RWX", mpok)
                   ELSE guard
       /\ UNCHANGED <<restvars, build, canary>>

\* a release that treats a damaged stack guard as fatal
ContextReleaseChecked(c, mpok) ==
  IF build.debug /\ (canary[c].lo # DEADBEEF \/ canary[c].hi # DEADBEEF)
  THEN /\ Running /\ c \in Blocks /\ owners[c] > 0 /\ c # cur /\ mpok
       /\ aborted' = TRUE
       /\ last' = MkLast("release", c, NULL, FALSE, "none", NULL, NULL, NULL)
       /\ trace' = <<EvWarn("overflow", c)>>
       /\ UNCHANGED <<mem, next, length, fn, arg, uc, ctxlist, cur, ub, done,
                      nfail, owners, given, ncalls, restvars, build, canary, guard,
                      nprot>>
  ELSE /\ Release(c)
       /\ trace' = IF mem' # mem THEN ContextFree(c, mpok) ELSE <<>>
       /\ ProtInput(mem' # mem /\ build.mprotect, mpok)
       /\ guard' = IF mem' # mem THEN ProtectGuard(guard, c, "RWX", mpok)
                   ELSE guard
       /\ UNCHANGED <<restvars, build, canary>>

\* dart__tasking__context_release in the build at hand
ContextRelease(c, mpok) ==
  /\ Release(c)
  /\ LET freed == mem' # mem
         warn == IF build.debug /\ ~ub' /\ ~CanaryIntact(canary[c])
                 THEN <<EvWarn("overflow", c)>> ELSE <<>>
     IN /\ ProtInput(freed /\ build.mprotect, mpok)
        /\ trace' = warn \o (IF freed THEN ContextFree(c, mpok) ELSE <<>>)
        /\ guard' = IF freed THEN ProtectGuard(guard, c, "RWX", mpok) ELSE guard
  /\ UNCHANGED <<restvars, build, canary>>

\* the trace of cleanup: the blocks of the store, top first
RECURSIVE CleanupTrace(_, _)
CleanupTrace(blocks, failing) ==
  IF blocks = <<>> THEN <<>>
  ELSE ContextFree(Head(blocks), Head(blocks) \notin failing)
         \o CleanupTrace(Tail(blocks), failing)

\* the subsets of S with at most k elements
RECURSIVE SmallSubsets(_, _)
SmallSubsets(S, k) ==
  IF k = 0 THEN {{}}
  ELSE {{}} \cup {T \cup {x} : x \in S, T \in SmallSubsets(S, k - 1)}
\* the sets of blocks whose mprotect can fail in a cleanup
FailingSets == SmallSubsets(PoolSet, MaxProtFail - nprot)

\* dart__tasking__context_cleanup in the build at hand; failing are the
\* blocks whose mprotect fails
ContextCleanup(failing) ==
  /\ failing \subseteq (IF build.mprotect THEN PoolSet ELSE {})
  /\ nprot + Cardinality(failing) <= MaxProtFail
  /\ Cleanup
  /\ ub' => failing = {}
  /\ nprot' = nprot + Cardinality(failing)
  /\ trace' = IF ub' THEN <<>> ELSE CleanupTrace(Pool, failing)
  /\ guard' = [b \in Blocks |->
                 IF build.mprotect /\ ~ub' /\ b \in PoolSet \ failing
                 THEN "RWX" ELSE guard[b]]
  /\ UNCHANGED <<restvars, build, canary>>

\* invoke, swap and the trampoline have no conditional parts
ContextInvoke(c) == Invoke(c) /\ trace' = <<>> /\ UNCHANGED <<restvars, build, canary, guard, nprot>>
ContextSwap(o, n, fails) ==
  Swap(o, n, fails) /\ trace' = <<>> /\ UNCHANGED <<restvars, build, canary, guard, nprot>>
ContextFnReturn == FnReturn /\ trace' = <<>> /\ UNCHANGED <<restvars, build, canary, guard, nprot>>

\* ---------------------------------------------------------- specifications
Next ==
  \/ \E e \in Entries, ok \in BOOLEAN, mpok \in BOOLEAN :
        ContextCreate(e[1], e[2], ok, mpok)
  \/ \E c \in Blocks, mpok \in BOOLEAN : ContextRelease(c, mpok)
  \/ \E c \in Ctxs : ContextInvoke(c)
  \/ \E o \in Ctxs, n \in Ctxs, fails \in BOOLEAN : ContextSwap(o, n, fails)
  \/ ContextFnReturn
  \/ \E failing \in FailingSets : ContextCleanup(failing)

Spec == Init /\ [][Next]_vars

\* The store-capacity scenario: contexts are created while the store is
\* empty and nothing was released, then released (lowest or highest live
\* handle first), then the thread shuts down.
InitPool ==
  /\ InitOn(PoolBlocks) /\ InitBuild(PoolBlocks, DefaultBuild)
  /\ InitSizesDone /\ InitOneThread /\ InitNoObjects
LiveBlocks == {b \in Blocks : owners[b] > 0}
Released == {b \in Blocks : mem[b] # "none" /\ owners[b] = 0}
NumFreed == Cardinality({b \in Blocks : mem[b] = "freed"})
Min(x, y) == IF x <= y THEN x ELSE y

NextPool ==
  \/ Released = {} /\ ContextCreate(1, 1, TRUE, TRUE)
  \/ \E c \in LiveBlocks :
        /\ (\A b \in LiveBlocks : c <= b) \/ (\A b \in LiveBlocks : c >= b)
        /\ ContextRelease(c, TRUE)
  \/ ContextCleanup({})

SpecPool == InitPool /\ [][NextPool]_vars

\* The build scenario: any combination of the three compile-time switches;
\* a running task may write over the stack guards of its own stack;
\* swapcontext does not fail.
Builds == [debug : BOOLEAN, mmap : BOOLEAN, mprotect : BOOLEAN]
InitBuilds ==
  /\ InitOn(BuildBlocks) /\ \E b \in Builds : InitBuild(BuildBlocks, b)
  /\ InitSizesDone /\ InitOneThread /\ InitNoObjects

\* the running task writes below or above its stack
StackOverflow(lo, hi) ==
  /\ Running /\ build.debug
  /\ cur \in Blocks
  /\ lo \/ hi
  /\ canary' = [canary EXCEPT ![cur] =
                  [lo |-> IF lo THEN "clobbered" ELSE @.lo,
                   hi |-> IF hi THEN "clobbered" ELSE @.hi]]
  /\ canary' # canary
  /\ trace' = <<>>
  /\ last' = MkLast("overflow", cur, NULL, FALSE, "none", NULL, NULL, NULL)
  /\ UNCHANGED <<mem, next, length, fn, arg, uc, ctxlist, cur, aborted, ub,
                 done, nfail, owners, given, ncalls, restvars, build, guard, nprot>>

NextBuilds ==
  \/ \E e \in Entries, ok \in BOOLEAN, mpok \in BOOLEAN :
        ContextCreate(e[1], e[2], ok, mpok)
  \/ \E c \in Blocks, mpok \in BOOLEAN : ContextRelease(c, mpok)
  \/ \E c \in Ctxs : ContextInvoke(c)
  \/ \E o \in Ctxs, n \in Ctxs : ContextSwap(o, n, FALSE)
  \/ \E lo \in BOOLEAN, hi \in BOOLEAN : StackOverflow(lo, hi)
  \/ \E failing \in FailingSets : ContextCleanup(failing)

SpecBuilds == InitBuilds /\ [][NextBuilds]_vars

\* The free scenario: USE_MMAP and USE_MPROTECT on or off; contexts are
\* created while nothing was released, then released in the order of their
\* creation, then the thread shuts down.
InitFree ==
  /\ InitOn(PoolBlocks)
  /\ \E b \in {x \in Builds : ~x.debug} : InitBuild(PoolBlocks, b)
  /\ InitSizesDone /\ InitOneThread /\ InitNoObjects

NextFree ==
  \/ \E mpok \in BOOLEAN : Released = {} /\ ContextCreate(1, 1, TRUE, mpok)
  \/ \E c \in LiveBlocks, mpok \in BOOLEAN :
        /\ \A b \in LiveBlocks : c <= b
        /\ ContextRelease(c, mpok)
  \/ \E failing \in FailingSets : ContextCleanup(failing)

SpecFree == InitFree /\ [][NextFree]_vars

\* Sizes: the page size the system reports, the stack size the
\* environment gives, the header size of the build and a size to adjust
\* are inputs; context_init runs once, before any context is created.
Pages == {4096, 16384, 65536}
\* DART_TASK_STACKSIZE: not set or not a size (-1), or a size
EnvSizes == {0 - 1, 1, 8192, 65536, 100000}
\* 1 byte, whole pages and a byte less or more, and a size so large that
\* rounding it up wraps
ReqSizes(p) ==
  {r \in {k * p + d : k \in 0..MaxPages, d \in {0 - 1, 0, 1}} : r >= 1}
    \cup {SIZE_MAX}

InitSize ==
  /\ InitOn(BuildBlocks)
  /\ \E b \in {x \in Builds : ~x.debug} : InitBuild(BuildBlocks, b)
  /\ page_size = 0
  /\ task_stack_size = DEFAULT_TASK_STACK_SIZE
  /\ \E p \in Pages, e \in EnvSizes, h \in HeaderSizes :
       \E r \in ReqSizes(p) :
         szin = [page |-> p, env |-> e, header |-> h, req |-> r]
  /\ szout = [inited |-> FALSE, adjusted |-> 0, size |-> 0]
  /\ InitOneThread /\ InitNoObjects

NextSize ==
  \/ ContextInit
  \/ ContextAdjustSize
  \/ /\ szout.inited
     /\ \E e \in Entries, mpok \in BOOLEAN :
          ContextCreate(e[1], e[2], TRUE, mpok)
  \/ /\ szout.inited
     /\ \E c \in LiveBlocks : ContextRelease(c, TRUE)

SpecSize == InitSize /\ [][NextSize]_vars

\* Worker threads.  Every call starts with dart__tasking__current_thread()
\* and works on thread->ctxlist of the thread it gets; the blocks are in
\* the memory all threads share.  ctxlist, cur, done and the main context
\* are those of the thread tid that executes; tl keeps them for the other
\* threads, with the contexts each of them holds.
ThreadBlocks == 2
Threads == {1, 2}

\* the main context of the executing thread
MainOf(u, f, a) == [uc |-> u[MainCtx], fn |-> f[MainCtx], arg |-> a[MainCtx]]

\* the contexts the executing thread created and holds
Mine == LiveBlocks \ UNION {tl[u].handles : u \in DOMAIN tl \ {tid}}

\* the thread structure of the executing thread, as it is when it is left
ThreadOut ==
  [ctxlist |-> ctxlist, cur |-> cur, main |-> MainOf(uc, fn, arg),
   done |-> done, handles |-> Mine]

\* dart__tasking__current_thread() that gives every thread the same store
ThreadStoreShared(t) == ctxlist

\* thread->ctxlist of the thread t that is about to execute
ThreadStore(t) == tl[t].ctxlist

\* the processor leaves the thread tid and executes the thread t
Schedule(t) ==
  /\ ~aborted /\ ~ub
  /\ t \in DOMAIN tl /\ t # tid
  /\ tl' = [tl EXCEPT ![tid] = ThreadOut]
  /\ tid' = t
  /\ ctxlist' = ThreadStore(t)
  /\ cur' = tl[t].cur
  /\ done' = tl[t].done
  /\ uc' = [uc EXCEPT ![MainCtx] = tl[t].main.uc]
  /\ fn' = [fn EXCEPT ![MainCtx] = tl[t].main.fn]
  /\ arg' = [arg EXCEPT ![MainCtx] = tl[t].main.arg]
  /\ last' = MkLast("schedule", NULL, NULL, FALSE, "none", NULL, NULL, NULL)
  /\ trace' = <<>>
  /\ UNCHANGED <<mem, next, length, aborted, ub, nfail, owners, given, ncalls,
                 build, canary, guard, nprot, sizevars, objvars>>

InitThreads ==
  /\ InitOn(ThreadBlocks) /\ InitBuild(ThreadBlocks, DefaultBuild)
  /\ InitSizesDone /\ InitNoObjects
  /\ tid = 1
  /\ tl = [t \in Threads |->
             [ctxlist |-> NULL, cur |-> MainFlow,
              main |-> [uc |-> UcNone, fn |-> NULL, arg |-> NULL],
              done |-> FALSE, handles |-> {}]]

\* every thread works on the contexts it created itself
NextThreads ==
  \/ \E t \in Threads : Schedule(t)
  \/ \E e \in Entries : ContextCreate(e[1], e[2], TRUE, TRUE)
  \/ \E c \in Mine : ContextRelease(c, TRUE)
  \/ \E c \in Mine : ContextInvoke(c)
  \/ \E o \in Mine \cup {MainCtx}, n \in Mine \cup {MainCtx}, fails \in BOOLEAN :
        ContextSwap(o, n, fails)
  \/ ContextCleanup({})

SpecThreads == InitThreads /\ [][NextThreads]_vars

\* ================================================================ Future
\* dash::Future<ResultT> and dash::Future<void>.  A future is constructed
\* for an operation k, whose get function blocks until the operation is
\* complete and returns its result ResultOf(k), whose test function returns whether it
\* is complete and, if so, assigns the result, and whose destroy function
\* is to run when the future dies.  Each of the three may be empty.
MaxFutures == 2
MaxOps == 2
\* how often a get function and a test function are called at most
MaxCalls == 2
MaxTests == 1

\* an empty std::function
NoFn == 0
\* ResultT{}
NoValue == 0
FutSlots == 1..MaxFutures
Ops == 1..MaxOps
Values == {3}
\* the result of the operation k
ResultOf(k) == k

\* the members after default initialisation: _get_func, _test_func,
\* _destroy_func empty, _value{}, _ready{false}
MembersInit ==
  [live |-> TRUE, get |-> NoFn, test |-> NoFn, destroy |-> NoFn,
   value |-> NoValue, ready |-> FALSE]
NoFuture == [MembersInit EXCEPT !.live = FALSE]

\* the call op on future s called the callbacks `called`, returned ret or
\* threw
MkFLast(op, s, ret, threw, called) ==
  [op |-> op, slot |-> s, ret |-> ret, threw |-> threw, called |-> called]

FGet(k) == [fn |-> "get", op |-> k]
FTest(k) == [fn |-> "test", op |-> k]
FDestroy(k) == [fn |-> "destroy", op |-> k]

\* the callbacks after the calls cs: a get function returns when the
\* operation is complete
RECURSIVE Called(_, _)
Called(cb, cs) ==
  IF cs = <<>> THEN cb
  ELSE LET c == Head(cs)
           cb1 == IF c.fn = "get"
                  THEN [cb EXCEPT !.gets[c.op] = @ + 1,
                                  !.complete[c.op] = TRUE]
                  ELSE IF c.fn = "test"
                  THEN [cb EXCEPT !.tests[c.op] = @ + 1]
                  ELSE [cb EXCEPT !.destroys[c.op] = @ + 1]
       IN Called(cb1, Tail(cs))

\* the calls stay within the bound
MayCall(cs) ==
  \A i \in 1..Len(cs) :
     /\ cs[i].fn = "get" => fcb.gets[cs[i].op] < MaxCalls
     /\ cs[i].fn = "test" => fcb.tests[cs[i].op] < MaxTests

\* DASH_THROW(dash::exception::RuntimeError, ...): the call ends with the
\* exception, whatever the members are
Throws(op, s) ==
  /\ fut' = fut
  /\ fcb' = fcb
  /\ flast' = MkFLast(op, s, NoValue, TRUE, <<>>)

\* ------------------------------------------------------------------ wait
\* a wait that throws whenever the value is not there yet
WaitThrowsNotReady(f) == ~f.ready
\* if (_ready) return; if (!_get_func) DASH_THROW
WaitThrows(f) == ~f.ready /\ f.get = NoFn

\* _get_func() is called unless the future is ready
WaitCalls(f) == IF f.ready THEN <<>> ELSE <<FGet(f.get)>>

\* a wait that takes the value and leaves _ready as it is
AfterWaitNotReady(f) ==
  IF f.ready THEN f
  ELSE [f EXCEPT !.value = IF fcb.void THEN @ ELSE ResultOf(f.get)]
\* _value = _get_func(); _ready = true   (Future<void>: _get_func();)
AfterWait(f) ==
  IF f.ready THEN f
  ELSE [f EXCEPT !.value = IF fcb.void THEN @ ELSE ResultOf(f.get),
                 !.ready = TRUE]

\* Future::wait and Future<void>::wait
FutureWait(s) ==
  /\ s \in DOMAIN fut /\ fut[s].live
  /\ LET f == fut[s] IN
     IF WaitThrows(f) THEN Throws("wait", s)
     ELSE /\ MayCall(WaitCalls(f))
          /\ fut' = [fut EXCEPT ![s] = AfterWait(f)]
          /\ fcb' = Called(fcb, WaitCalls(f))
          /\ flast' = MkFLast("wait", s, NoValue, FALSE, WaitCalls(f))
  /\ UNCHANGED <<ctxvars, buildvars, sizevars, threadvars, dynvars, viewvars>>

\* Future::get: wait(); return _value   (Future<void>::get: wait())
FutureGet(s) ==
  /\ s \in DOMAIN fut /\ fut[s].live
  /\ LET f == fut[s] IN
     IF WaitThrows(f) THEN Throws("get", s)
     ELSE /\ MayCall(WaitCalls(f))
          /\ fut' = [fut EXCEPT ![s] = AfterWait(f)]
          /\ fcb' = Called(fcb, WaitCalls(f))
          /\ flast' = MkFLast("get", s, fut'[s].value, FALSE, WaitCalls(f))
  /\ UNCHANGED <<ctxvars, buildvars, sizevars, threadvars, dynvars, viewvars>>

\* ------------------------------------------------------------------ test
\* if (!_ready) and neither function is there: DASH_THROW
TestThrows(f) == ~f.ready /\ f.test = NoFn /\ f.get = NoFn

\* a test that asks the get function first
TestCallsGetFirst(f) ==
  IF f.ready THEN <<>>
  ELSE IF f.get # NoFn THEN <<FGet(f.get)>>
  ELSE <<FTest(f.test)>>
\* if (_test_func) _test_func(&_value) else if (_get_func) _get_func()
TestCalls(f) ==
  IF f.ready THEN <<>>
  ELSE IF f.test # NoFn THEN <<FTest(f.test)>>
  ELSE <<FGet(f.get)>>

\* _ready = _test_func(&_value), the test function assigning the result if
\* the operation is complete; or _value = _get_func(); _ready = true
AfterTest(f, cs) ==
  IF cs = <<>> THEN f
  ELSE LET k == cs[1].op
           avail == cs[1].fn = "get" \/ fcb.complete[k]
       IN [f EXCEPT !.value = IF avail /\ ~fcb.void THEN ResultOf(k) ELSE @,
                    !.ready = avail]

\* Future::test and Future<void>::test: return _ready
FutureTest(s) ==
  /\ s \in DOMAIN fut /\ fut[s].live
  /\ LET f == fut[s] IN
     IF TestThrows(f) THEN Throws("test", s)
     ELSE /\ MayCall(TestCalls(f))
          /\ fut' = [fut EXCEPT ![s] = AfterTest(f, TestCalls(f))]
          /\ fcb' = Called(fcb, TestCalls(f))
          /\ flast' = MkFLast("test", s, fut'[s].ready, FALSE, TestCalls(f))
  /\ UNCHANGED <<ctxvars, buildvars, sizevars, threadvars, dynvars, viewvars>>

\* ----------------------------------------------------------------- valid
\* Future::valid: _ready || _get_func != nullptr;
\* Future<void>::valid: _get_func != nullptr
Valid(f) == IF fcb.void THEN f.get # NoFn ELSE f.ready \/ f.get # NoFn

FutureValid(s) ==
  /\ s \in DOMAIN fut /\ fut[s].live
  /\ flast' = MkFLast("valid", s, Valid(fut[s]), FALSE, <<>>)
  /\ UNCHANGED <<fut, fcb>>
  /\ UNCHANGED <<ctxvars, buildvars, sizevars, threadvars, dynvars, viewvars>>

\* ---------------------------------------------------------- construction
\* Future(): the default constructor
FutureDefault(s) ==
  /\ s \in DOMAIN fut /\ ~fut[s].live
  /\ fut' = [fut EXCEPT ![s] = MembersInit]
  /\ flast' = MkFLast("Future()", s, NoValue, FALSE, <<>>)
  /\ UNCHANGED fcb
  /\ UNCHANGED <<ctxvars, buildvars, sizevars, threadvars, dynvars, viewvars>>

\* Future(ResultT result): _value(std::move(result)), _ready(true)
FutureValue(s, v) ==
  /\ s \in DOMAIN fut /\ ~fut[s].live
  /\ ~fcb.void
  /\ fut' = [fut EXCEPT ![s] = [MembersInit EXCEPT !.value = v, !.ready = TRUE]]
  /\ flast' = MkFLast("Future(result)", s, NoValue, FALSE, <<>>)
  /\ UNCHANGED fcb
  /\ UNCHANGED <<ctxvars, buildvars, sizevars, threadvars, dynvars, viewvars>>

\* Future(get_func), Future(get_func, test_func) and Future(get_func,
\* test_func, destroy_func) for a new operation; g, t, d say which of the
\* functions passed are not empty
FutureFns(s, g, t, d) ==
  /\ s \in DOMAIN fut /\ ~fut[s].live
  /\ g \/ t \/ d
  /\ fcb.nops < MaxOps
  /\ LET k == fcb.nops + 1 IN
     /\ fut' = [fut EXCEPT ![s] =
                  [MembersInit EXCEPT !.get = IF g THEN k ELSE NoFn,
                                      !.test = IF t THEN k ELSE NoFn,
                                      !.destroy = IF d THEN k ELSE NoFn]]
     /\ fcb' = [fcb EXCEPT !.nops = k, !.owed[k] = d]
  /\ flast' = MkFLast("Future(fns)", s, NoValue, FALSE, <<>>)
  /\ UNCHANGED <<ctxvars, buildvars, sizevars, threadvars, dynvars, viewvars>>

\* ------------------------------------------------------------------ move
\* operator=(self_t&&) assigns over _destroy_func and calls nothing
ReplacedCalls(dst) == <<>>

\* operator=(self_t&& other): the members of *this afterwards
MovedTo(dst, src) ==
  [dst EXCEPT !.get = src.get, !.test = src.test, !.destroy = src.destroy,
              !.value = src.value, !.ready = src.ready]
\* and those of other: a std::function that was moved from is empty in the
\* standard libraries, the value and _ready stay
MovedFrom(src) ==
  [src EXCEPT !.get = NoFn, !.test = NoFn, !.destroy = NoFn]

\* Future(self_t&& other): *this = std::move(other) on members that were
\* default initialised
FutureMove(s, t) ==
  /\ s \in DOMAIN fut /\ t \in DOMAIN fut
  /\ ~fut[s].live /\ fut[t].live
  /\ fut' = [fut EXCEPT ![s] = MovedTo(MembersInit, fut[t]),
                        ![t] = MovedFrom(fut[t])]
  /\ fcb' = Called(fcb, ReplacedCalls(MembersInit))
  /\ flast' = MkFLast("Future(&&)", s, t, FALSE, ReplacedCalls(MembersInit))
  /\ UNCHANGED <<ctxvars, buildvars, sizevars, threadvars, dynvars, viewvars>>

\* operator=(self_t&& other) on a future that exists
FutureAssign(s, t) ==
  /\ s \in DOMAIN fut /\ t \in DOMAIN fut
  /\ s # t /\ fut[s].live /\ fut[t].live
  /\ fut' = [fut EXCEPT ![s] = MovedTo(fut[s], fut[t]),
                        ![t] = MovedFrom(fut[t])]
  /\ fcb' = Called(fcb, ReplacedCalls(fut[s]))
  /\ flast' = MkFLast("operator=(&&)", s, t, FALSE, ReplacedCalls(fut[s]))
  /\ UNCHANGED <<ctxvars, buildvars, sizevars, threadvars, dynvars, viewvars>>

\* ~Future(): if (_destroy_func) _destroy_func()
DestroyCalls(f) == IF f.destroy # NoFn THEN <<FDestroy(f.destroy)>> ELSE <<>>

FutureDestroy(s) ==
  /\ s \in DOMAIN fut /\ fut[s].live
  /\ fut' = [fut EXCEPT ![s] = NoFuture]
  /\ fcb' = Called(fcb, DestroyCalls(fut[s]))
  /\ flast' = MkFLast("~Future()", s, NoValue, FALSE, DestroyCalls(fut[s]))
  /\ UNCHANGED <<ctxvars, buildvars, sizevars, threadvars, dynvars, viewvars>>

\* the operation k completes
OpCompletes(k) ==
  /\ k \in 1..fcb.nops /\ ~fcb.complete[k]
  /\ fcb' = [fcb EXCEPT !.complete[k] = TRUE]
  /\ flast' = MkFLast("completes", NoFn, k, FALSE, <<>>)
  /\ UNCHANGED fut
  /\ UNCHANGED <<ctxvars, buildvars, sizevars, threadvars, dynvars, viewvars>>

\* no future exists; the class is instantiated for a value type or for void
InitFuture ==
  /\ InitOn(BuildBlocks) /\ InitBuild(BuildBlocks, DefaultBuild)
  /\ InitSizesDone /\ InitOneThread
  /\ fut = [s \in FutSlots |-> NoFuture]
  /\ \E v \in BOOLEAN :
       fcb = [void |-> v, nops |-> 0,
              complete |-> [k \in Ops |-> FALSE],
              owed |-> [k \in Ops |-> FALSE],
              gets |-> [k \in Ops |-> 0],
              tests |-> [k \in Ops |-> 0],
              destroys |-> [k \in Ops |-> 0]]
  /\ flast = MkFLast("init", 0, NoValue, FALSE, <<>>)
  /\ allocated = <<>> /\ dart = <<>> /\ dlast = <<>>
  /\ view = <<>> /\ vlast = <<>>

NextFuture ==
  \/ \E s \in FutSlots : FutureDefault(s)
  \/ \E s \in FutSlots, v \in Values : FutureValue(s, v)
  \/ \E s \in FutSlots, g \in BOOLEAN, t \in BOOLEAN, d \in BOOLEAN :
       FutureFns(s, g, t, d)
  \/ \E s \in FutSlots, t \in FutSlots : FutureMove(s, t)
  \/ \E s \in FutSlots, t \in FutSlots : FutureAssign(s, t)
  \/ \E s \in FutSlots : FutureDestroy(s)
  \/ \E s \in FutSlots : FutureWait(s)
  \/ \E s \in FutSlots : FutureGet(s)
  \/ \E s \in FutSlots : FutureTest(s)
  \/ \E s \in FutSlots : FutureValid(s)
  \/ \E k \in Ops : OpCompletes(k)

SpecFuture == InitFuture /\ [][NextFuture]_vars

\* ====================================================== DynamicAllocator
\* dash::allocator::DynamicAllocator: _allocated is the vector of the blocks
\* allocate_local returned, each with the global pointer it is attached
\* under (DART_GPTR_NULL: not attached).  dart is what the allocator works
\* on: the local memory that is allocated (heap), the global pointers that
\* are registered with the team's global memory space (reg), the number of
\* global pointers handed out (ngptr), how often each was deregistered
\* (deregs), whether the runtime is initialised, and whether the process
\* was aborted or executed undefined behaviour.
MaxAddrs == 2
MaxGptrs == 2
\* the blocks in _allocated at most
MaxTracked == 2

\* nullptr
NullPtr == 0
DART_GPTR_NULL == 0
Addrs == 1..MaxAddrs
Gptrs == 1..MaxGptrs
\* num_local_elem
Lens == {1, 2}

\* the call op(params) returned ret or threw, after registering the blocks
\* regs, deregistering the global pointers deregs and deallocating the
\* local memory at frees
MkDLast(op, params, ret, threw, regs, deregs, frees) ==
  [op |-> op, arg |-> params, ret |-> ret, threw |-> threw, regs |-> regs,
   deregs |-> deregs, frees |-> frees]

DynRunning == ~dart.aborted /\ ~dart.ub /\ ~dart.destroyed

\* std::find_if(begin, end, pred): the first block that is (lptr, n), or 0
\* for end
FindBlock(lptr, n) ==
  LET hits == {i \in 1..Len(allocated) :
                 allocated[i].ptr = lptr /\ allocated[i].length = n}
  IN IF hits = {} THEN 0 ELSE CHOOSE i \in hits : \A j \in hits : i <= j
\* the first block whose global pointer is gptr
FindGptr(gptr) ==
  LET hits == {i \in 1..Len(allocated) : allocated[i].gptr = gptr}
  IN IF hits = {} THEN 0 ELSE CHOOSE i \in hits : \A j \in hits : i <= j

\* _allocated.erase(found)
Erase(seq, i) == SubSeq(seq, 1, i - 1) \o SubSeq(seq, i + 1, Len(seq))

\* AllocatorTraits::deallocate for each of ptrs: the memory is given back;
\* memory that is not allocated is given back a second time
FreeLocal(d, ptrs) ==
  [d EXCEPT !.heap = @ \ {ptrs[i] : i \in 1..Len(ptrs)},
            !.ub = @ \/ \E i \in 1..Len(ptrs) :
                           \/ ptrs[i] \notin d.heap
                           \/ \E j \in 1..Len(ptrs) : j # i /\ ptrs[j] = ptrs[i]]

\* dart_team_memderegister(gptr) succeeds on a registered pointer, if the
\* runtime lets it
DeregOk(gptr, deregok) == gptr \in dart.reg /\ deregok
Deregistered(d, gptr) ==
  [d EXCEPT !.reg = @ \ {gptr}, !.deregs[gptr] = @ + 1]

\* DASH_THROW(dash::exception::InvalidArgument, ...)
DynThrows(op, params) ==
  /\ dlast' = MkDLast(op, params, NullPtr, TRUE, <<>>, <<>>, <<>>)
  /\ UNCHANGED <<allocated, dart>>

\* ---------------------------------------------------------------- attach
\* an attach that only asks whether the block is tracked
AttachRejectsUntracked(i) == i = 0
\* found == end, or found->second: the block is attached already
AttachRejects(i) == i = 0 \/ allocated[i].gptr # DART_GPTR_NULL

\* dart_team_memregister(...) == DART_OK: the runtime registers memory
\* while it is initialised, if it can
RegOk(regok) == dart.initialized /\ regok

\* DynamicAllocator::attach(lptr, num_local_elem); regok is the outcome of
\* dart_team_memregister
DynAttach(lptr, n, regok) ==
  /\ DynRunning
  /\ LET i == FindBlock(lptr, n) IN
     IF AttachRejects(i) THEN DynThrows("attach", <<lptr, n>>)
     ELSE IF RegOk(regok)
     THEN /\ dart.ngptr < MaxGptrs
          /\ LET g == dart.ngptr + 1 IN
             /\ allocated' = [allocated EXCEPT ![i].gptr = g]
             /\ dart' = [dart EXCEPT !.ngptr = g, !.reg = @ \cup {g}]
             /\ dlast' = MkDLast("attach", <<lptr, n>>, g, FALSE, <<allocated[i].ptr>>,
                                 <<>>, <<>>)
     ELSE /\ allocated' = [allocated EXCEPT ![i].gptr = DART_GPTR_NULL]
          /\ dlast' = MkDLast("attach", <<lptr, n>>, DART_GPTR_NULL, FALSE, <<>>,
                              <<>>, <<>>)
          /\ UNCHANGED dart
  /\ UNCHANGED <<ctxvars, buildvars, sizevars, threadvars, futvars, viewvars>>

\* ---------------------------------------------------------------- detach
\* a detach that gives the local memory back as well
DetachFreesLocal(i) == <<allocated[i].ptr>>
\* detach "does not deallocate local memory"
DetachFrees(i) == <<>>

\* the body of detach(gptr) from the lookup on: [allocated, dart, deregs]
\* afterwards.  A deregistration that fails is asserted: DASH_ASSERT(false)
DetachBody(gptr, deregok) ==
  LET i == FindGptr(gptr) IN
  IF ~dart.initialized \/ i = 0
  THEN [allocated |-> allocated, dart |-> dart, deregs |-> <<>>, frees |-> <<>>]
  ELSE IF ~DeregOk(gptr, deregok)
  THEN [allocated |-> allocated,
        dart |-> [dart EXCEPT !.aborted = AssertAborts(FALSE)],
        deregs |-> <<>>, frees |-> <<>>]
  ELSE [allocated |-> [allocated EXCEPT ![i].gptr = DART_GPTR_NULL],
        dart |-> FreeLocal(Deregistered(dart, gptr), DetachFrees(i)),
        deregs |-> <<gptr>>, frees |-> DetachFrees(i)]

\* DynamicAllocator::detach(gptr)
DynDetach(gptr, deregok) ==
  /\ DynRunning
  /\ LET r == DetachBody(gptr, deregok) IN
     /\ allocated' = r.allocated
     /\ dart' = r.dart
     /\ dlast' = MkDLast("detach", <<gptr>>, NullPtr, FALSE, <<>>, r.deregs,
                        r.frees)
  /\ UNCHANGED <<ctxvars, buildvars, sizevars, threadvars, futvars, viewvars>>

\* -------------------------------------------------------- allocate_local
\* DynamicAllocator::allocate_local(num_local_elem); lp is what
\* AllocatorTraits::allocate returns: memory that is not allocated, or
\* nullptr
DynAllocateLocal(n, lp) ==
  /\ DynRunning
  /\ lp = NullPtr \/ (lp \in Addrs /\ lp \notin dart.heap)
  /\ Len(allocated) < MaxTracked
  /\ IF lp = NullPtr
     THEN UNCHANGED <<allocated, dart>>
     ELSE /\ allocated' = Append(allocated, [ptr |-> lp, length |-> n,
                                             gptr |-> DART_GPTR_NULL])
          /\ dart' = [dart EXCEPT !.heap = @ \cup {lp}]
  /\ dlast' = MkDLast("allocate_local", <<n>>, lp, FALSE, <<>>, <<>>, <<>>)
  /\ UNCHANGED <<ctxvars, buildvars, sizevars, threadvars, futvars, viewvars>>

\* DynamicAllocator::deallocate_local(lptr, num_local_elem): the memory is
\* given back; the block stays in _allocated if it is attached
DynDeallocateLocal(lptr, n) ==
  /\ DynRunning
  /\ LET i == FindBlock(lptr, n) IN
     IF i = 0
     THEN /\ dlast' = MkDLast("deallocate_local", <<lptr, n>>, NullPtr, FALSE,
                            <<>>, <<>>, <<>>)
          /\ UNCHANGED <<allocated, dart>>
     ELSE LET attached == allocated[i].gptr # DART_GPTR_NULL IN
          /\ dart' = FreeLocal(dart, <<allocated[i].ptr>>)
          /\ allocated' = IF attached THEN allocated ELSE Erase(allocated, i)
          /\ dlast' = MkDLast("deallocate_local", <<lptr, n>>, NullPtr, FALSE,
                            <<>>, <<>>, <<allocated[i].ptr>>)
  /\ UNCHANGED <<ctxvars, buildvars, sizevars, threadvars, futvars, viewvars>>

\* ------------------------------------------------------------ deallocate
\* DynamicAllocator::deallocate(gptr, num_local_elem): detach(found->second),
\* AllocatorTraits::deallocate(found->first.ptr), _allocated.erase(found)
DynDeallocate(gptr, deregok) ==
  /\ DynRunning
  /\ LET i == FindGptr(gptr) IN
     IF ~dart.initialized \/ i = 0
     THEN /\ dlast' = MkDLast("deallocate", <<gptr>>, NullPtr, FALSE, <<>>, <<>>,
                            <<>>)
          /\ UNCHANGED <<allocated, dart>>
     ELSE LET r == DetachBody(gptr, deregok) IN
          IF r.dart.aborted
          THEN /\ allocated' = r.allocated
               /\ dart' = r.dart
               /\ dlast' = MkDLast("deallocate", <<gptr>>, NullPtr, FALSE, <<>>,
                                   r.deregs, r.frees)
          ELSE /\ allocated' = Erase(r.allocated, i)
               /\ dart' = FreeLocal(r.dart, <<allocated[i].ptr>>)
               /\ dlast' = MkDLast("deallocate", <<gptr>>, NullPtr, FALSE, <<>>,
                                   r.deregs, r.frees \o <<allocated[i].ptr>>)
  /\ UNCHANGED <<ctxvars, buildvars, sizevars, threadvars, futvars, viewvars>>

\* ~DynamicAllocator(): clear() gives back every block in _allocated and
\* deregisters those that are attached
DynClear ==
  /\ DynRunning
  /\ LET ptrs == [i \in 1..Len(allocated) |-> allocated[i].ptr]
         att == {allocated[i].gptr : i \in 1..Len(allocated)} \ {DART_GPTR_NULL}
         d1 == FreeLocal(dart, ptrs)
     IN /\ dart' = [d1 EXCEPT !.reg = @ \ att,
                              !.deregs = [g \in Gptrs |->
                                            IF g \in att \cap dart.reg
                                            THEN @[g] + 1 ELSE @[g]],
                              !.aborted = AssertAborts(att \subseteq dart.reg),
                              !.destroyed = TRUE]
        /\ dlast' = MkDLast("~DynamicAllocator", <<>>, NullPtr, FALSE, <<>>, <<>>,
                            ptrs)
  /\ allocated' = <<>>
  /\ UNCHANGED <<ctxvars, buildvars, sizevars, threadvars, futvars, viewvars>>

\* dash::finalize(): dart_exit() frees the global memory, and
\* dash::is_initialized() is false from then on
DashFinalize ==
  /\ DynRunning
  /\ dart.initialized
  /\ dart' = [dart EXCEPT !.initialized = FALSE, !.reg = {}]
  /\ dlast' = MkDLast("finalize", <<>>, NullPtr, FALSE, <<>>, <<>>, <<>>)
  /\ UNCHANGED allocated
  /\ UNCHANGED <<ctxvars, buildvars, sizevars, threadvars, futvars, viewvars>>

\* DynamicAllocator(space, team): nothing is allocated
InitDyn ==
  /\ InitOn(BuildBlocks) /\ InitBuild(BuildBlocks, DefaultBuild)
  /\ InitSizesDone /\ InitOneThread
  /\ fut = <<>> /\ fcb = <<>> /\ flast = <<>>
  /\ view = <<>> /\ vlast = <<>>
  /\ allocated = <<>>
  /\ dart = [heap |-> {}, reg |-> {}, ngptr |-> 0,
             deregs |-> [g \in Gptrs |-> 0],
             initialized |-> TRUE, aborted |-> FALSE, ub |-> FALSE,
             destroyed |-> FALSE]
  /\ dlast = MkDLast("init", <<>>, NullPtr, FALSE, <<>>, <<>>, <<>>)

NextDyn ==
  \/ \E n \in Lens, lp \in Addrs \cup {NullPtr} : DynAllocateLocal(n, lp)
  \/ \E lptr \in Addrs \cup {NullPtr}, n \in Lens, regok \in BOOLEAN :
       DynAttach(lptr, n, regok)
  \/ \E gptr \in Gptrs \cup {DART_GPTR_NULL}, deregok \in BOOLEAN :
       DynDetach(gptr, deregok)
  \/ \E lptr \in Addrs \cup {NullPtr}, n \in Lens : DynDeallocateLocal(lptr, n)
  \/ \E gptr \in Gptrs \cup {DART_GPTR_NULL}, deregok \in BOOLEAN :
       DynDeallocate(gptr, deregok)
  \/ DynClear
  \/ DashFinalize

SpecDyn == InitDyn /\ [][NextDyn]_vars

\* ============================================================== ViewSpec
\* dash::ViewSpec<NumDimensions, IndexType>: _values holds the offset and
\* the extent of every dimension (the base class Dimensional), _extents and
\* _offsets are arrays kept beside them, _size the number of elements and
\* _rank the number of dimensions in use.  Dimensions are counted from 1
\* here, so that the dimensions below the rank are 1.._rank.
NumDimensions == 2
\* the largest offset and the largest extent a call is given
MaxOffset == 1
MaxExtent == 2

Dims == 1..NumDimensions
OffsetVals == 0..MaxOffset
ExtentVals == 0..MaxExtent
ViewPairs == [offset : OffsetVals, extent : ExtentVals]

\* the product of e[1..k]
RECURSIVE Product(_, _)
Product(e, k) == IF k = 0 THEN 1 ELSE e[k] * Product(e, k - 1)

MkVLast(op, threw) == [op |-> op, threw |-> threw]

\* ViewSpec(offsets, extents)
ViewOf(offsets, extents) ==
  [values |-> [d \in Dims |-> [offset |-> offsets[d], extent |-> extents[d]]],
   size |-> Product(extents, NumDimensions),
   rank |-> NumDimensions,
   extents |-> extents,
   offsets |-> offsets]

\* update_size(): _size and the arrays are set from the dimensions below
\* _rank
UpdateSize(v) ==
  [v EXCEPT
     !.size = Product([d \in Dims |-> v.values[d].extent], v.rank),
     !.extents = [d \in Dims |-> IF d <= v.rank THEN v.values[d].extent
                                 ELSE @[d]],
     !.offsets = [d \in Dims |-> IF d <= v.rank THEN v.values[d].offset
                                 ELSE @[d]]]

\* _offsets = { } in the copy constructor
CopiedOffsets(v) == [d \in Dims |-> 0]

\* ViewSpec(const self_t & other): the view is replaced by a copy of it
ViewCopy ==
  /\ view' = [values |-> view.values, size |-> view.size, rank |-> view.rank,
              extents |-> view.extents, offsets |-> CopiedOffsets(view)]
  /\ vlast' = MkVLast("copy", FALSE)
  /\ UNCHANGED <<ctxvars, buildvars, sizevars, threadvars, futvars, dynvars>>

\* resize(const std::array<ViewPair_t, NumDimensions> & view)
ViewResize(pairs) ==
  /\ view' = UpdateSize([view EXCEPT !.values = pairs])
  /\ vlast' = MkVLast("resize", FALSE)
  /\ UNCHANGED <<ctxvars, buildvars, sizevars, threadvars, futvars, dynvars>>

\* resize(const std::array<SizeType_, NumDimensions> & extent)
ViewResizeExtents(extent) ==
  /\ view' = UpdateSize([view EXCEPT
                           !.values = [d \in Dims |->
                                         [offset |-> @[d].offset,
                                          extent |-> extent[d]]]])
  /\ vlast' = MkVLast("resize_extents", FALSE)
  /\ UNCHANGED <<ctxvars, buildvars, sizevars, threadvars, futvars, dynvars>>

\* resize_dim(dimension, offset, extent)
ViewResizeDim(dimension, offset, extent) ==
  /\ view' = UpdateSize([view EXCEPT
                           !.values[dimension] = [offset |-> offset,
                                                  extent |-> extent]])
  /\ vlast' = MkVLast("resize_dim", FALSE)
  /\ UNCHANGED <<ctxvars, buildvars, sizevars, threadvars, futvars, dynvars>>

\* dimensions > NumDimensions || dimensions < 1
SetRankRejects(dimensions) == dimensions > NumDimensions \/ dimensions < 1

\* set_rank(dimensions)
ViewSetRank(dimensions) ==
  /\ IF SetRankRejects(dimensions)
     THEN /\ vlast' = MkVLast("set_rank", TRUE)
          /\ UNCHANGED view
     ELSE /\ view' = UpdateSize([view EXCEPT !.rank = dimensions])
          /\ vlast' = MkVLast("set_rank", FALSE)
  /\ UNCHANGED <<ctxvars, buildvars, sizevars, threadvars, futvars, dynvars>>

InitView ==
  /\ InitOn(BuildBlocks) /\ InitBuild(BuildBlocks, DefaultBuild)
  /\ InitSizesDone /\ InitOneThread
  /\ fut = <<>> /\ fcb = <<>> /\ flast = <<>>
  /\ allocated = <<>> /\ dart = <<>> /\ dlast = <<>>
  /\ \E offsets \in [Dims -> OffsetVals], extents \in [Dims -> ExtentVals] :
       view = ViewOf(offsets, extents)
  /\ vlast = MkVLast("ViewSpec", FALSE)

NextView ==
  \/ ViewCopy
  \/ \E pairs \in [Dims -> ViewPairs] : ViewResize(pairs)
  \/ \E extent \in [Dims -> ExtentVals] : ViewResizeExtents(extent)
  \/ \E d \in Dims, o \in OffsetVals, e \in ExtentVals :
       ViewResizeDim(d, o, e)
  \/ \E k \in 0..(NumDimensions + 1) : ViewSetRank(k)

SpecView == InitView /\ [][NextView]_vars

\* ================================================================ claims
\* the step handed control to context c: invoke(c), or swap(old, c) whose
\* swapcontext did not fail
Activates(c) ==
  /\ last'.op \in {"invoke", "swap"}
  /\ last'.ctx = c
  /\ last'.ret # "DART_ERR_OTHER"

C3_StoreAtMostTen == Len(Pool) <= PER_THREAD_CTX_STORE

\* C4: from an empty store, after N releases with no create in between the
\* store holds exactly min(N, 10) blocks and exactly N - min(N, 10) blocks
\* were freed.
C4_RetainsMinNTen ==
  ~done =>
    LET N == Cardinality(Released) IN
    /\ Len(Pool) = Min(N, PER_THREAD_CTX_STORE)
    /\ NumFreed = N - Min(N, PER_THREAD_CTX_STORE)

\* C5: a create called with a non-empty store allocates nothing, returns the
\* block at the top of the store, which was released before (no live context
\* owns it), takes it out of the store (the store shrinks by exactly one
\* block) and leaves its counter at 0; a block is allocated only when the
\* store is empty.
C5_CreateReusesReleased ==
  [][last'.op = "create" =>
        /\ ctxlist # NULL =>
              /\ mem' = mem
              /\ last'.ctx = ctxlist
              /\ owners[ctxlist] = 0
              /\ Len(Pool') = Len(Pool) - 1
              /\ ctxlist \notin PoolSet'
              /\ length'[ctxlist] = 0
        /\ mem' # mem => ctxlist = NULL]_vars

\* C6: no block is owned by two live contexts, and no block owned by a live
\* context is reachable from the store between API calls.
C6_ExclusiveOwnership ==
  \A b \in Blocks :
    /\ owners[b] <= 1
    /\ owners[b] > 0 => b \notin PoolSet

\* C7: a swap call returns DART_ERR_OTHER exactly when swapcontext failed;
\* the failure does not abort the process and the caller runs on; DART_OK is
\* what a swap call returns when its flow is resumed.
C7_SwapReportsFailure ==
  /\ [][(nfail' # nfail) <=> (last'.ret = "DART_ERR_OTHER")]_vars
  /\ [][(nfail' # nfail) =>
          /\ last'.op = "swap" /\ nfail' = nfail + 1
          /\ ~aborted' /\ ~ub' /\ ~done'
          /\ cur' = cur]_vars
  /\ [][last'.ret = "DART_OK" =>
          /\ nfail' = nfail
          /\ uc[last'.ctx].kind = "saved"
          /\ cur' = uc[last'.ctx].flow]_vars

\* C7 witness: swapcontext failed inside a running task, which got
\* DART_ERR_OTHER and runs on
C7_Witness ==
  /\ nfail = 1 /\ last.op = "swap" /\ last.ret = "DART_ERR_OTHER"
  /\ cur \in Blocks /\ ~aborted /\ ~ub

\* C8: a block whose entry function was called carries neither fn nor arg
\* until a later create hands it out again: only create sets the fields, and
\* the trampoline has read them when it clears them.
C8_EntryFieldsCleared ==
  /\ [](\A b \in Blocks : ncalls[b] >= 1 => fn[b] = NULL /\ arg[b] = NULL)
  /\ [][\A c \in Ctxs :
          ((fn[c] = NULL /\ fn'[c] # NULL) \/ (arg[c] = NULL /\ arg'[c] # NULL))
             => last'.op = "create" /\ last'.ctx = c]_vars
  /\ [][\A b \in Blocks :
          ncalls'[b] > ncalls[b] =>
             /\ last'.cfn = fn[b] /\ last'.carg = arg[b]
             /\ fn'[b] = NULL /\ arg'[b] = NULL]_vars

\* C8 witness: a task that was entered, swapped out and resumed; its
\* fields are still clear
C8_Witness ==
  /\ ncalls[2] = 1 /\ fn[2] = NULL /\ arg[2] = NULL
  /\ cur = 2 /\ last.ret = "DART_OK" /\ last.ctx = 2

\* C9: when an entry function returns into the trampoline the process is
\* aborted: nothing of the thread's state changes any more, and no operation
\* starts in an aborted process.
C9_ReturnAborts ==
  /\ [][last'.op = "return" =>
          /\ aborted'
          /\ cur' = cur /\ ctxlist' = ctxlist /\ mem' = mem /\ uc' = uc]_vars
  /\ [][~aborted]_vars

\* C9 witness: the entry function of a task returned and the process is
\* aborted
C9_Witness ==
  /\ aborted /\ last.op = "return"
  /\ cur \in Blocks /\ ncalls[cur] = 1

\* C10: when the allocator fails in create the process is aborted: no handle
\* is returned, no block is written and the store is untouched; a block that
\* was never allocated has no owner, no entry function and is not stored.
C10_AllocFailureAborts ==
  /\ [][(last'.op = "create" /\ last'.ret = "ENOMEM") =>
          /\ aborted'
          /\ last'.ctx = NULL
          /\ mem' = mem /\ next' = next /\ length' = length
          /\ fn' = fn /\ arg' = arg /\ uc' = uc
          /\ ctxlist' = ctxlist /\ owners' = owners]_vars
  /\ [](\A b \in Blocks :
          mem[b] = "none" =>
             owners[b] = 0 /\ fn[b] = NULL /\ b \notin PoolSet)

\* C10 witness: a second allocation failed after a first one succeeded
C10_Witness ==
  /\ aborted /\ last.op = "create" /\ last.ret = "ENOMEM"
  /\ mem[1] = "alloc" /\ mem[2] = "none"

\* C11: a cleanup call leaves the store empty, frees every block that was
\* in the store, each of them once (none was freed before, none is met
\* twice), and frees no block that a live context owns.
C11_CleanupFreesStoreOnly ==
  [][last'.op = "cleanup" =>
        /\ ~ub'
        /\ ctxlist' = NULL
        /\ \A b \in PoolSet : mem[b] = "alloc" /\ mem'[b] = "freed"
        /\ \A b \in Blocks : owners[b] > 0 => mem'[b] # "freed"]_vars

\* the latest call logged the warning what
Warned(tr, what) ==
  \E i \in 1..Len(tr) : tr[i].call = "DART_LOG_WARN" /\ tr[i].what = what

\* C12: in a DART_DEBUG build a release logs the stack-overflow warning
\* exactly when at least one of the two stack guards written by create no
\* longer holds 0xDEADBEEF.
C12_WarnsOnEitherGuard ==
  [][\A c \in Blocks :
        (build.debug /\ last'.op = "release" /\ last'.ctx = c /\ ~ub') =>
           (Warned(trace', "overflow")
              <=> (canary[c].lo # "DEADBEEF" \/ canary[c].hi # "DEADBEEF"))]_vars

FreeEvents(tr, b) ==
  {j \in 1..Len(tr) : tr[j].call \in {"free", "munmap"} /\ tr[j].blk = b}
\* the events of tr that change the protection of the guard page of b
ProtectEvents(tr, b) ==
  {i \in 1..Len(tr) : tr[i].call = "mprotect" /\ tr[i].blk = b}

\* C14: whenever a block is freed by release or by cleanup, its region is
\* released exactly once (munmap in a USE_MMAP build, free otherwise); in a
\* USE_MPROTECT build the guard page is set to read/write/execute by a call
\* made before that, whether or not the call succeeds, and a failing call
\* is followed by a warning only.
C14_GuardRestoredBeforeFree ==
  [][\A b \in Blocks :
        IF mem[b] = "alloc" /\ mem'[b] = "freed"
        THEN /\ Cardinality(FreeEvents(trace', b)) = 1
             /\ \A j \in FreeEvents(trace', b) :
                   /\ trace'[j].call = (IF build.mmap THEN "munmap" ELSE "free")
                   /\ build.mprotect =>
                        /\ j > 1
                        /\ ProtectEvents(trace', b) = {j - 1} \/
                             ProtectEvents(trace', b) = {j - 2}
                        /\ \A i \in ProtectEvents(trace', b) :
                              /\ trace'[i].prot = "RWX"
                              /\ trace'[i].ok => guard'[b] = "RWX"
                              /\ ~trace'[i].ok =>
                                   /\ trace'[i + 1].call = "DART_LOG_WARN"
                                   /\ guard'[b] = guard[b]
                   /\ ~build.mprotect => ProtectEvents(trace', b) = {}
        ELSE FreeEvents(trace', b) = {}]_vars

\* C14 witness: a release at capacity freed a block of a USE_MMAP,
\* USE_MPROTECT build although the guard page could not be restored
C14_Witness ==
  /\ last.op = "release" /\ ~last.flag /\ mem[last.ctx] = "freed"
  /\ build.mprotect /\ build.mmap
  /\ Len(trace) = 3
  /\ trace[1].call = "mprotect" /\ ~trace[1].ok
  /\ trace[3].call = "munmap" /\ guard[last.ctx] = "PROT_NONE"

\* a step of the context management as it is without any compile-time
\* switch, whatever the stack guards and guard pages are
CtxNext ==
  \/ \E e \in Entries, ok \in BOOLEAN : Create(e[1], e[2], ok)
  \/ \E c \in Blocks : Release(c)
  \/ \E c \in Ctxs : Invoke(c)
  \/ \E o \in Ctxs, n \in Ctxs, fails \in BOOLEAN : Swap(o, n, fails)
  \/ FnReturn
  \/ Cleanup

\* the latest call made the mprotect call ev on block b and it failed
ProtectFailed(tr, b) ==
  \E i \in ProtectEvents(tr, b) : ~tr[i].ok

\* C15: when mprotect fails while a block is allocated, create logs a
\* warning and returns a fresh context on that block all the same (entry
\* function and argument set, ucontext at the trampoline, counter 0); every
\* later call on a block without guard page acts on the context state as it
\* does on any block.
C15_GuardInstallBestEffort ==
  /\ [][\A b \in Blocks :
          (last'.op = "create" /\ ProtectFailed(trace', b)) =>
             /\ Warned(trace', "mprotect")
             /\ ~aborted' /\ ~ub'
             /\ last'.ctx = b /\ mem'[b] = "alloc" /\ owners'[b] = 1
             /\ fn'[b] # NULL /\ <<fn'[b], arg'[b]>> = given'[b]
             /\ uc'[b] = [kind |-> "entry", flow |-> b]
             /\ length'[b] = 0 /\ ncalls'[b] = 0
             /\ guard'[b] = "none"]_vars
  /\ [][\A b \in Blocks :
          (build.mprotect /\ guard[b] = "none" /\ mem[b] = "alloc"
             /\ last'.ctx = b /\ last'.op # "overflow") => CtxNext]_ctxvars

\* C15 witness: a block whose guard page could not be installed has run a
\* task, was released into the store and is handed out again by create
C15_Witness ==
  /\ build.mprotect /\ last.op = "create" /\ last.flag
  /\ guard[last.ctx] = "none" /\ nprot = 1
  /\ fn[last.ctx] # NULL /\ owners[last.ctx] = 1 /\ ~ub

\* C16: after context_init the task stack size is max(S, page size) when
\* the environment gives a stack size S, and max(16 KiB, page size) when
\* it gives none; it is at least one page in every case.
C16_StackSizeFromConfig ==
  szout.inited =>
    /\ task_stack_size >= page_size
    /\ task_stack_size =
         LET S == IF szin.env >= 0 THEN szin.env ELSE DEFAULT_TASK_STACK_SIZE
         IN IF S < page_size THEN page_size ELSE S

\* the size is one the adjustment can represent: rounding up does not wrap
InRange(s, p) == s >= 1 /\ s + p - 1 < SizeMod

\* the least multiple of p that is >= s
LeastMultiple(s, p) == ((s + p - 1) \div p) * p

\* C17: a size of at least one byte within the range is adjusted to the
\* least multiple of the page size that is not below it, and the region
\* a create asks for is adjusted(header) + adjusted(stack size), plus one
\* page when the guard page is compiled in.
C17_AdjustIsLeastMultiple ==
  /\ (szout.adjusted # 0 /\ InRange(szin.req, page_size)) =>
       /\ szout.adjusted = LeastMultiple(szin.req, page_size)
       /\ szout.adjusted % page_size = 0
       /\ szout.adjusted >= szin.req
       /\ szout.adjusted - page_size < szin.req
  /\ szout.size # 0 =>
       szout.size = LeastMultiple(szin.header, page_size)
                      + LeastMultiple(task_stack_size, page_size)
                      + (IF build.mprotect THEN page_size ELSE 0)

\* C17 witness: k pages and one byte were adjusted to k + 1 pages, and a
\* build with the guard page asked for header page, stack and guard page
C17_Witness ==
  /\ szin.req = 2 * page_size + 1
  /\ szout.adjusted = 3 * page_size
  /\ szout.size = 2 * page_size + task_stack_size
  /\ build.mprotect

\* the store of the thread u that is not executing
PoolOf(u) == Chain(tl[u].ctxlist, next, Cardinality(Blocks) + 1)
PoolSetOf(u) == {PoolOf(u)[i] : i \in 1..Len(PoolOf(u))}
\* the blocks of the thread u: those in its store and those it holds
BlocksOf(u) == PoolSetOf(u) \cup tl[u].handles
\* nothing of the block b is written
BlockKept(b) ==
  /\ mem'[b] = mem[b] /\ next'[b] = next[b] /\ length'[b] = length[b]
  /\ fn'[b] = fn[b] /\ arg'[b] = arg[b] /\ uc'[b] = uc[b]
  /\ owners'[b] = owners[b] /\ given'[b] = given[b]
\* a call of the executing thread leaves the other threads as they are
OthersKept ==
  tid' = tid =>
    /\ tl' = tl
    /\ \A u \in DOMAIN tl \ {tid} : \A b \in BlocksOf(u) : BlockKept(b)
\* no block is in the store of two threads, or in the store of one thread
\* and held by another
StoresApart ==
  /\ \A u \in DOMAIN tl \ {tid} :
       /\ PoolSetOf(u) \cap PoolSet = {}
       /\ PoolSetOf(u) \cap Mine = {}
       /\ tl[u].handles \cap PoolSet = {}
  /\ \A u \in DOMAIN tl \ {tid}, v \in DOMAIN tl \ {tid} :
       u # v => BlocksOf(u) \cap BlocksOf(v) = {}

FCall(op, s) == flast'.op = op /\ flast'.slot = s

\* C21: a wait() that returns leaves the future ready; a get() on a future
\* that is ready returns the value it holds and calls nothing, and the value
\* a future holds once its get function was called is the one that function
\* returned; the get function of an operation without a test function is
\* called at most once, whatever wait(), get() and test() calls are made.
C21_WaitMakesReady ==
  /\ [][\A s \in FutSlots :
          /\ (FCall("wait", s) /\ ~flast'.threw) => fut'[s].ready
          /\ (FCall("get", s) /\ ~flast'.threw) =>
               /\ fut'[s].ready
               /\ flast'.ret = fut'[s].value
               /\ fut[s].ready =>
                    /\ flast'.called = <<>>
                    /\ flast'.ret = fut[s].value
                    /\ fcb' = fcb
               /\ (~fut[s].ready /\ ~fcb.void) =>
                    /\ flast'.called = <<[fn |-> "get", op |-> fut[s].get]>>
                    /\ flast'.ret = ResultOf(fut[s].get)]_vars
  /\ [](\A s \in FutSlots :
          (fut[s].live /\ fut[s].ready /\ fut[s].get # NoFn /\ ~fcb.void) =>
             fut[s].value = ResultOf(fut[s].get))
  /\ [](\A k \in Ops : fcb.gets[k] <= 1)

\* C21 witness: a second get() on a future with only a get function
\* returned the result again, the get function having been called once
C21_Witness ==
  /\ flast.op = "get" /\ flast.called = <<>> /\ ~flast.threw
  /\ fut[flast.slot].get # NoFn /\ fut[flast.slot].test = NoFn
  /\ flast.ret = ResultOf(fut[flast.slot].get)
  /\ fcb.gets[fut[flast.slot].get] = 1
  /\ ~fcb.void

\* C22: test() returns whether the future is ready after the call; on a
\* future that is not ready it calls the test function alone if there is
\* one and returns what that returned, else it calls the get function and
\* returns true; on a ready future wait(), get() and test() call nothing.
C22_TestTellsReady ==
  [][\A s \in FutSlots :
       /\ (FCall("test", s) /\ ~flast'.threw) =>
            /\ flast'.ret = fut'[s].ready
            /\ (~fut[s].ready /\ fut[s].test # NoFn) =>
                 /\ flast'.called = <<[fn |-> "test", op |-> fut[s].test]>>
                 /\ flast'.ret = fcb.complete[fut[s].test]
                 /\ fcb'.gets = fcb.gets
            /\ (~fut[s].ready /\ fut[s].test = NoFn) =>
                 /\ flast'.called = <<[fn |-> "get", op |-> fut[s].get]>>
                 /\ flast'.ret = TRUE
       /\ (fut[s].ready
             /\ (FCall("test", s) \/ FCall("wait", s) \/ FCall("get", s))) =>
            /\ ~flast'.threw
            /\ flast'.called = <<>>
            /\ fcb'.gets = fcb.gets /\ fcb'.tests = fcb.tests
            /\ fut'[s] = fut[s]]_vars

\* C22 witness: test() asked the test function, which said no, and the get
\* function has not been called
C22_Witness ==
  /\ flast.op = "test" /\ ~flast.threw
  /\ flast.called = <<[fn |-> "test", op |-> fut[flast.slot].test]>>
  /\ flast.ret = FALSE
  /\ fut[flast.slot].get = fut[flast.slot].test
  /\ fcb.gets[fut[flast.slot].get] = 0
  /\ ~fut[flast.slot].ready

\* C23: wait(), get() and test() on a future that is not ready and has
\* neither a get nor a test function throw RuntimeError and leave the
\* future as it is, not ready; on a future for which valid() is true none
\* of them throws.
C23_ThrowsWithoutFunction ==
  [][\A s \in FutSlots :
       (FCall("test", s) \/ FCall("wait", s) \/ FCall("get", s)) =>
          /\ (~fut[s].ready /\ fut[s].get = NoFn /\ fut[s].test = NoFn) =>
               /\ flast'.threw
               /\ fut' = fut /\ ~fut'[s].ready
               /\ fcb' = fcb
          /\ (IF fcb.void THEN fut[s].get # NoFn
              ELSE fut[s].ready \/ fut[s].get # NoFn) => ~flast'.threw]_vars

\* C23 witness: get() on a default-constructed future threw
C23_Witness ==
  /\ flast.op = "get" /\ flast.threw
  /\ fut[flast.slot] = [live |-> TRUE, get |-> NoFn, test |-> NoFn,
                        destroy |-> NoFn, value |-> NoValue, ready |-> FALSE]

\* C24: the destroy function a future was constructed with is called
\* exactly once, by the destructor of the future that owns it last: as long
\* as it has not been called one future holds it, and once it has been
\* called none does.
C24_DestroyCalledOnce ==
  \A k \in Ops :
     fcb.owed[k] =>
        fcb.destroys[k]
          + Cardinality({s \in FutSlots : fut[s].live /\ fut[s].destroy = k})
          = 1

\* the blocks in _allocated that are (lptr, n)
Tracked(lptr, n) ==
  {i \in 1..Len(allocated) :
     allocated[i].ptr = lptr /\ allocated[i].length = n}
\* the blocks in _allocated that are attached under gptr
AttachedAs(gptr) ==
  {i \in 1..Len(allocated) : allocated[i].gptr = gptr}

\* C25: attach(lptr, n) throws InvalidArgument when no tracked block is
\* (lptr, n) and when the block (lptr, n) is attached already; the tracked
\* blocks and their global pointers are then as before, and nothing is
\* registered with the global memory space.
C25_AttachThrowsInvalid ==
  [][dlast'.op = "attach" =>
       LET hits == Tracked(dlast'.arg[1], dlast'.arg[2]) IN
       (hits = {} \/ \E i \in hits : allocated[i].gptr # DART_GPTR_NULL) =>
          /\ dlast'.threw
          /\ allocated' = allocated
          /\ dart' = dart
          /\ dlast'.regs = <<>>]_vars

\* C25 witness: an attach of a block that is attached threw
C25_Witness ==
  /\ dlast.op = "attach" /\ dlast.threw
  /\ \E i \in Tracked(dlast.arg[1], dlast.arg[2]) :
        allocated[i].gptr # DART_GPTR_NULL /\ allocated[i].gptr \in dart.reg

\* C26: detach(gptr) of an attached block deregisters gptr once and gives
\* no local memory back; the block stays tracked with a null global
\* pointer, so that an attach of it registers it again and a
\* deallocate_local gives it back and drops it.  deallocate(gptr, n) of an
\* attached block deregisters gptr once, gives the local memory back once
\* and drops the block.
C26_DetachKeepsLocal ==
  /\ [][(dlast'.op \in {"detach", "deallocate"} /\ ~dart'.aborted) =>
          LET g == dlast'.arg[1]
              hits == AttachedAs(g)
          IN (g # DART_GPTR_NULL /\ hits # {} /\ g \in dart.reg) =>
               /\ dlast'.deregs = <<g>>
               /\ dart.deregs[g] = 0 /\ dart'.deregs[g] = 1
               /\ g \notin dart'.reg
               /\ Cardinality(hits) = 1
               /\ dlast'.op = "detach" =>
                    /\ dlast'.frees = <<>>
                    /\ dart'.heap = dart.heap
                    /\ allocated' =
                         [i \in 1..Len(allocated) |->
                            IF i \in hits
                            THEN [ptr |-> allocated[i].ptr,
                                  length |-> allocated[i].length,
                                  gptr |-> DART_GPTR_NULL]
                            ELSE allocated[i]]
               /\ dlast'.op = "deallocate" =>
                    \A i \in hits :
                       /\ dlast'.frees = <<allocated[i].ptr>>
                       /\ allocated[i].ptr \notin dart'.heap
                       /\ allocated[i].ptr \in dart.heap => ~dart'.ub
                       /\ allocated' = SubSeq(allocated, 1, i - 1)
                                         \o SubSeq(allocated, i + 1,
                                                   Len(allocated))]_vars
  /\ [][dlast'.op = "attach" =>
          LET hits == Tracked(dlast'.arg[1], dlast'.arg[2]) IN
          (hits # {} /\ \A i \in hits : allocated[i].gptr = DART_GPTR_NULL) =>
             ~dlast'.threw]_vars
  /\ [][dlast'.op = "deallocate_local" =>
          LET hits == Tracked(dlast'.arg[1], dlast'.arg[2]) IN
          (hits # {} /\ \A i \in hits : allocated[i].gptr = DART_GPTR_NULL) =>
             /\ Len(allocated') = Len(allocated) - 1
             /\ dlast'.frees = <<dlast'.arg[1]>>
             /\ dlast'.deregs = <<>>]_vars

\* C26 witness: a block was attached, detached, attached again and then
\* deallocated
C26_Witness ==
  /\ dlast.op = "deallocate" /\ dlast.deregs = <<2>>
  /\ Len(dlast.frees) = 1
  /\ dart.deregs = [g \in Gptrs |-> IF g <= 2 THEN 1 ELSE 0]
  /\ allocated = <<>> /\ dart.heap = {} /\ dart.reg = {}
  /\ ~dart.ub /\ ~dart.aborted

\* C27: whenever control is given to a context whose saved state is the
\* entry of the trampoline, the trampoline pops a block, the popped block
\* is the block of that context, on whose stack the thread now executes,
\* and the thread's list is afterwards what it was before the invoke or
\* swap call.
C27_TrampolinePopsPushed ==
  [][\A c \in Blocks :
       (Activates(c) /\ uc[c].kind = "entry") =>
          /\ last'.blk # NULL
          /\ last'.blk = c
          /\ cur' = c
          /\ Pool' = Pool]_vars

C29_CreateReturnsFresh ==
  /\ [][(last'.op = "create" /\ last'.ctx # NULL /\ ~ub' /\ ~aborted') =>
          LET res == last'.ctx IN
          /\ <<fn'[res], arg'[res]>> \in Entries
          /\ <<fn'[res], arg'[res]>> = given'[res]
          /\ uc'[res] = [kind |-> "entry", flow |-> res]
          /\ ncalls'[res] = 0
          /\ owners'[res] = 1
          /\ \A c \in Ctxs \ {res} : uc'[c].flow # res]_vars
  /\ [](\A c \in Blocks :
          (fn[c] # NULL /\ owners[c] > 0) =>
             /\ uc[c] = [kind |-> "entry", flow |-> c]
             /\ <<fn[c], arg[c]>> = given[c]
             /\ ncalls[c] = 0)
  /\ [][\A c \in Blocks :
          (fn[c] # NULL /\ Activates(c) /\ c \notin PoolSet) =>
             /\ cur' = c /\ last'.blk = c
             /\ last'.cfn = fn[c] /\ last'.carg = arg[c]
             /\ Pool' = Pool]_vars

\* C29 witness: task 2 released block 1 and a create with other arguments
\* returned block 1 from the store
C29_Witness ==
  /\ last.op = "create" /\ last.flag /\ last.ctx = 1
  /\ cur = 2 /\ owners[1] = 1 /\ ~ub
  /\ <<fn[1], arg[1]>> = <<2, 2>>
  /\ uc[1] = [kind |-> "entry", flow |-> 1]

\* C30: the store is a stack: a release that stores a block puts it on
\* top of the blocks that are stored, a create with a non-empty store
\* returns the block on top and leaves the others in their order, and no
\* other call but cleanup changes what is stored or its order; so create
\* returns the block that was released last among those stored.
C30_PoolIsLifo ==
  [][/\ (last'.op = "release" /\ last'.flag) =>
           Pool' = <<last'.ctx>> \o Pool
     /\ (last'.op = "create" /\ ctxlist # NULL /\ ~ub') =>
           /\ last'.ctx = Head(Pool)
           /\ Pool' = Tail(Pool)
     /\ (last'.op \in {"invoke", "swap"} /\ ~ub' /\ ~aborted') =>
           Pool' = Pool]_vars

C32_StackAfterHeader ==
  szout.size # 0 =>
     /\ StackRange[1] = AdjustSize(szin.header, page_size)
     /\ StackRange[1] >= szin.header
     /\ StackRange[2] <= szout.size
     /\ build.mprotect => StackRange[2] <= GuardRange[1]

\* C33: in a build with USE_MPROTECT the guard range of a block that was
\* allocated starts on a page boundary, where the stack rounded up to whole
\* pages ends, is one page long, lies inside the region and is the last
\* page of the region.
C33_GuardIsLastPage ==
  (szout.size # 0 /\ build.mprotect) =>
     /\ GuardRange[1] % page_size = 0
     /\ GuardRange[1] = StackRange[1] + AdjustSize(task_stack_size, page_size)
     /\ GuardRange[2] - GuardRange[1] = page_size
     /\ GuardRange[2] <= szout.size
     /\ GuardRange[2] = szout.size

\* C34: when swapcontext fails, the swap call returns with the thread's
\* list holding the blocks it held before the call, and the block of the
\* context the call was to enter is not on the list.
C34_FailedSwapKeepsList ==
  [][(last'.op = "swap" /\ last'.ret = "DART_ERR_OTHER") =>
        /\ Pool' = Pool
        /\ ctxlist' = ctxlist
        /\ last'.ctx \notin PoolSet']_vars

\* C35: between calls the counter of each stored block is its position in
\* the store counted from the bottom, so that the counter of the block on
\* top is the number of blocks stored.
C35_CounterIsPosition ==
  /\ \A i \in 1..Len(Pool) : length[Pool[i]] = Len(Pool) - i + 1
  /\ ctxlist # NULL => length[ctxlist] = Len(Pool)

\* the states of a block that was allocated
IsLive(b) == owners[b] > 0 /\ mem[b] = "alloc"
IsPooled(b) == b \in PoolSet
IsFreed(b) == mem[b] = "freed"
StatesOf(b) ==
  (IF IsLive(b) THEN {"live"} ELSE {})
    \cup (IF IsPooled(b) THEN {"pooled"} ELSE {})
    \cup (IF IsFreed(b) THEN {"freed"} ELSE {})

\* C36: every block that was allocated is live, stored or freed, and only
\* one of these; no block is freed twice, and no freed block is read by a
\* create, an invoke, a swap, a release or a cleanup.
C36_OneStatePerBlock ==
  /\ \A b \in Blocks : mem[b] # "none" => Cardinality(StatesOf(b)) = 1
  /\ ~ub

\* the context c is live and has its first activation or its continuation
\* ahead of it
Waiting(c) == owners[c] > 0 /\ (fn[c] # NULL \/ uc[c].kind = "saved")

\* C37: a create, a release of another context and a cleanup leave every
\* context that is fresh or suspended as it is: its block is not freed and
\* not stored, and its saved state, function and argument are kept.
C37_OthersUntouched ==
  [][\A c \in Blocks :
       (Waiting(c)
          /\ \/ last'.op = "create"
             \/ last'.op = "release" /\ last'.ctx # c
             \/ last'.op = "cleanup") =>
          /\ mem'[c] = mem[c]
          /\ c \notin PoolSet'
          /\ owners'[c] = owners[c]
          /\ uc'[c] = uc[c] /\ fn'[c] = fn[c] /\ arg'[c] = arg[c]]_vars

\* C38: the blocks reachable from the head of the thread's list are
\* finitely many and none is reached twice, so that the loop of cleanup
\* ends after one iteration per stored block.
C38_PoolAcyclic ==
  /\ Len(Pool) <= Cardinality(Blocks)
  /\ \A i \in 1..Len(Pool), j \in 1..Len(Pool) : Pool[i] = Pool[j] => i = j

\* C39: no local memory is given back to the local allocator twice,
\* whatever calls are made on the allocator, and once the allocator is
\* destroyed no block is tracked and no local memory it allocated is left.
C39_LocalFreedOnce ==
  /\ ~dart.ub
  /\ dart.destroyed => (allocated = <<>> /\ dart.heap = {})

\* C40: for every dimension below the rank the arrays extents() and
\* offsets() hold the extent and the offset of that dimension, and size()
\* is the product of the extents of these dimensions; a set_rank with a
\* rank outside 1..NumDimensions throws and leaves the view as it is.
C40_ViewArraysAgree ==
  /\ [](\A d \in 1..view.rank :
          /\ view.offsets[d] = view.values[d].offset
          /\ view.extents[d] = view.values[d].extent)
  /\ [](view.size = Product([d \in Dims |-> view.values[d].extent],
                            view.rank))
  /\ [][(vlast'.op = "set_rank" /\ vlast'.threw) => view' = view]_vars
  /\ [][(vlast'.op = "set_rank" /\ ~vlast'.threw) =>
          view'.rank \in 1..NumDimensions]_vars

C20_InvokeIsOneWay ==
  /\ [][last'.op = "invoke" =>
          \A c \in Ctxs :
             uc'[c].kind = "saved" => (uc'[c] = uc[c] /\ uc'[c].flow # cur)]_vars
  /\ [][\A c \in Ctxs :
          (uc'[c] # uc[c] /\ uc'[c].kind = "saved") =>
             /\ last'.op = "swap" /\ last'.old = c
             /\ uc'[c].flow = cur
             /\ \A d \in Ctxs \ {c} : uc'[d].kind = "saved" => uc'[d] = uc[d]]_vars

\* C20 witness: task 1 gave control to the fresh context 2 by invoke; no
\* context holds the flow of task 1
C20_Witness ==
  /\ last.op = "invoke" /\ last.ctx = 2 /\ cur = 2
  /\ ncalls[1] = 1 /\ ncalls[2] = 1 /\ owners[1] = 1
  /\ \A c \in Ctxs : ~(uc[c].kind = "saved" /\ uc[c].flow = 1)

====
